---------------------------- MODULE Spec2Model ----------------------------
(***************************************************************************)
(* Model of the useHlsPlayer hook (src/unnamed/part_000): one player       *)
(* component whose effect is re-run whenever one of its dependencies       *)
(* changes.  Every run of the effect is a playback session; a session owns *)
(* the closure variables hls, objectUrl, extraBlobs, networkErrorRetries   *)
(* and mediaErrorRetries, and - on the native path with ad filtering - an  *)
(* asynchronous processMasterPlaylist(src) promise that outlives the       *)
(* cleanup of the run that started it.                                     *)
(*                                                                         *)
(* hls.js and the browser are the environment: an Hls instance delivers    *)
(* events to its listeners until destroy() is called on it (destroy        *)
(* removes every listener); fetch() either yields a playlist text or       *)
(* rejects; URL.createObjectURL / URL.revokeObjectURL keep the set of      *)
(* blob URLs.  React runs the cleanup of the previous run and the body of  *)
(* the next run inside one synchronous commit.                             *)
(*                                                                         *)
(* Seven specifications share the module: Spec is the hook; SpecRewrite is *)
(* one call of filterM3u8Ad (src/lib/utils/m3u8-utils.ts) on texts made of *)
(* tokens; SpecResolve is one call of processMasterPlaylist with the texts *)
(* of the master and of its children, up to the handling of its result;    *)
(* SpecEvents is one effect run with the events its Hls instance delivers  *)
(* to the handlers of lines 127-192; SpecLoad is one request through       *)
(* AdFilterLoader.load; SpecDebounce is one mount of SearchBox             *)
(* (src/unnamed/part_001) with its useDebouncedSearch                      *)
(* (src/unnamed/part_002); SpecSync is one component lifecycle of          *)
(* useSubscriptionSync (src/unnamed/part_003) with the settings store.     *)
(***************************************************************************)
EXTENDS Integers, Sequences, FiniteSets, TLC

\* Number of effect runs (sessions) one player goes through.
MaxSessions == 2

\* const MAX_RETRIES = 3 (line 161)
MAX_RETRIES == 3

Sessions == 1..MaxSessions

\* Values of the `src` prop; "" is the falsy value of the guard on line 26.
Srcs == {"", "u1", "u2"}

\* video.canPlayType('application/vnd.apple.mpegurl') answers "" or a non-empty
\* string ("maybe", "probably"); the code uses the string as a truth value.
CanPlayTypes == {"", "maybe"}

\* data.type of an Hls.Events.ERROR event.
ErrorTypes == {"networkError", "mediaError", "otherError"}

\* data.details of an error event; "" stands for an absent detail string.
Details == {"", "manifestLoadError"}

(***************************************************************************)
(* Playlist texts, as the sequence of the kinds of their lines:            *)
(*   STREAM_INF  #EXT-X-STREAM-INF:...                                     *)
(*   MEDIA_REL   #EXT-X-MEDIA:...,URI="<relative>"                         *)
(*   MEDIA_ABS   #EXT-X-MEDIA:...,URI="http..."                            *)
(*   REL         a bare relative URI          ABS   a bare http... URI     *)
(*   EXTINF      #EXTINF:...                  TAG   any other tag          *)
(***************************************************************************)
LeafPlaylist == <<"EXTINF", "REL">>
MasterOneVariant == <<"TAG", "STREAM_INF", "REL">>
MasterAbsVariant == <<"STREAM_INF", "ABS">>
MasterTwoChildren == <<"MEDIA_REL", "STREAM_INF", "REL">>

Playlists == {LeafPlaylist, MasterOneVariant, MasterAbsVariant, MasterTwoChildren}

\* A playback source or a blob URL.  Blob URLs are named by the session
\* whose resolution created them and the master line they replace (0 for
\* the entry point: the leaf blob or the master blob).
Nothing == [kind |-> "none", url |-> "", owner |-> 0, idx |-> 0]
Url(u) == [kind |-> "url", url |-> u, owner |-> 0, idx |-> 0]
Blob(s, i) == [kind |-> "blob", url |-> "", owner |-> s, idx |-> i]

\* An onError(message) call, by the category of its message.
Report(c, d) == [cat |-> c, detail |-> d]

VARIABLES
    hlsSupported,     \* Hls.isSupported()
    canPlayType,      \* video.canPlayType(...)
    src,              \* the src prop of the latest render
    adFilter,         \* usePlayerSettings().adFilter of the latest render
    phase,            \* "commit": a run of the effect is due; "idle"; "unmounted"
    cur,              \* number of effect runs so far = id of the current session
    hlsRef,           \* hlsRef.current: 0 (null) or the id of an Hls instance
    hlsDestroyCalls,  \* per Hls instance: number of destroy() calls on it
    videoSrc,         \* video.src
    blobs,            \* blob URLs made by URL.createObjectURL
    revoked,          \* blob URLs passed to URL.revokeObjectURL
    sess,             \* per effect run: its closure variables and history
    listener,         \* the error listener closure of the current run
    rw,               \* one call of filterM3u8Ad: its arguments and its result
    rs,               \* one call of processMasterPlaylist on a master playlist
    ev,               \* one effect run and the events its Hls instance delivers
    ld,               \* one request that goes through the loader of the engine
    db,               \* one useDebouncedSearch instance, as SearchBox uses it
    sy                \* one useSubscriptionSync instance and the settings store

vars == <<hlsSupported, canPlayType, src, adFilter, phase, cur, hlsRef,
          hlsDestroyCalls, videoSrc, blobs, revoked, sess, listener, rw, rs,
          ev, ld, db, sy>>

\* The variables of the hook.
hookVars == <<hlsSupported, canPlayType, src, adFilter, phase, cur, hlsRef,
              hlsDestroyCalls, videoSrc, blobs, revoked, sess, listener>>

\* No call under observation.
NoCall == [pc |-> "none"]

\* The closure of an effect run that has not happened yet.
NoSession ==
    [backend |-> "none", src |-> "", adFilter |-> FALSE,
     hls |-> 0, objectUrl |-> Nothing, extraBlobs |-> {},
     res |-> "none", doc |-> <<>>, child |-> <<>>, createdBlobs |-> {},
     cleanups |-> 0, assigned |-> Nothing]

(***************************************************************************)
(* let networkErrorRetries = 0; let mediaErrorRetries = 0 (lines 159-160)  *)
(* are variables of one effect run, read and written only by the ERROR     *)
(* listener that run registers on its own Hls instance.  Only the current  *)
(* run can own a live instance (AtMostOneLiveBackend below), so the model  *)
(* keeps the counters of the current run and starts them afresh in every   *)
(* run.  Beside them: what the environment fed to this run's listener      *)
(* (netFed, mediaFed, otherFed, and otherDetail: the data.details of the    *)
(* last event of another type) and what the run issued (startLoads =      *)
(* hls.startLoad() calls, recovers = hls.recoverMediaError() calls,        *)
(* reports = the onError messages, in order).                              *)
(***************************************************************************)
FreshListener ==
    [networkErrorRetries |-> 0, mediaErrorRetries |-> 0,
     netFed |-> 0, mediaFed |-> 0, otherFed |-> 0, otherDetail |-> "",
     startLoads |-> 0, recovers |-> 0, reports |-> <<>>]

Init ==
    /\ hlsSupported \in BOOLEAN
    /\ canPlayType \in CanPlayTypes
    /\ src \in Srcs
    /\ adFilter \in BOOLEAN
    /\ phase = "commit"
    /\ cur = 0
    /\ hlsRef = 0
    /\ hlsDestroyCalls = [i \in Sessions |-> 0]
    /\ videoSrc = Nothing
    /\ blobs = {}
    /\ revoked = {}
    /\ sess = [s \in Sessions |-> NoSession]
    /\ listener = FreshListener
    /\ rw = NoCall
    /\ rs = NoCall
    /\ ev = NoCall
    /\ ld = NoCall
    /\ db = NoCall
    /\ sy = NoCall

----------------------------------------------------------------------------
(* The environment: hls.js and the video element. *)

\* hls.attachMedia(video) points video.src at a MediaSource object URL that
\* the Hls instance h owns.
Mse(h) == [kind |-> "mse", url |-> "", owner |-> h, idx |-> 0]

\* An Hls instance is live from `new Hls` until the first destroy() on it.
Live(h) == h # 0 /\ hlsDestroyCalls[h] = 0

\* hls.destroy() on instance h (0: no instance, no call).
DestroyCalls(calls, h) == IF h = 0 THEN calls ELSE [calls EXCEPT ![h] = @ + 1]

\* The first destroy() detaches the media: video.src is cleared when it is
\* still the object URL of that instance.
DetachMedia(v, calls, h) ==
    IF h # 0 /\ calls[h] = 0 /\ v = Mse(h) THEN Nothing ELSE v

----------------------------------------------------------------------------
(* Backend selection, lines 38-304. *)

isNativeHlsSupported == canPlayType # ""

\* A selection that takes the engine only when both conditions hold.
SelectBackendBoth(hlsSup, native, filter) ==
    IF hlsSup
    THEN IF ~native /\ filter THEN "intercept" ELSE "passthrough"
    ELSE IF native
         THEN IF filter THEN "resolver" ELSE "passthrough"
         ELSE "unsupported"

SelectBackend(hlsSup, native, filter) ==
    IF hlsSup
    THEN IF ~native \/ filter THEN "intercept" ELSE "passthrough"
    ELSE IF native
         THEN IF filter THEN "resolver" ELSE "passthrough"
         ELSE "unsupported"

----------------------------------------------------------------------------
(* The effect body, lines 24-304, and its cleanup, lines 306-314. *)

\* A run that returned on line 26 registered no cleanup.
HasCleanup(se) == se.backend \notin {"none", "skipped"}

\* A cleanup that leaves the Hls instance alone.
CleanupHlsNone(se) == 0

\* if (hls) hls.destroy()
CleanupHls(se) == se.hls

\* if (objectUrl) revoke; extraBlobs.forEach(revoke)
CleanupRevokes(se) ==
    (IF se.objectUrl # Nothing THEN {se.objectUrl} ELSE {}) \cup se.extraBlobs

\* The cleanup of the current run, shared by a re-render and the unmount.
Cleanup ==
    LET se == sess[cur] IN
    IF cur > 0 /\ HasCleanup(se)
    THEN /\ hlsDestroyCalls' = DestroyCalls(hlsDestroyCalls, CleanupHls(se))
         /\ videoSrc' = DetachMedia(videoSrc, hlsDestroyCalls, CleanupHls(se))
         /\ revoked' = revoked \cup CleanupRevokes(se)
         /\ sess' = [sess EXCEPT ![cur].cleanups = @ + 1]
    ELSE UNCHANGED <<hlsDestroyCalls, videoSrc, revoked, sess>>

\* onError?.('HLS not supported') of the last branch, line 303
UnsupportedReports(b) ==
    IF b = "unsupported" THEN <<Report("unsupported", "")>> ELSE <<>>

\* A dependency of the effect changed (src, adFilter, or the identity of a
\* callback): React runs the cleanup of the previous run; the next run is due.
Rerender ==
    /\ phase = "idle"
    /\ cur < MaxSessions
    /\ \E newSrc \in Srcs, newFilter \in BOOLEAN :
        /\ src' = newSrc
        /\ adFilter' = newFilter
    /\ Cleanup
    /\ phase' = "commit"
    /\ UNCHANGED <<rw, rs, ev, ld, db, sy>>
    /\ UNCHANGED <<hlsSupported, canPlayType, cur, hlsRef, blobs, listener>>

\* The component is removed: the cleanup runs and no further run follows.
Unmount ==
    /\ phase = "idle"
    /\ Cleanup
    /\ phase' = "unmounted"
    /\ UNCHANGED <<rw, rs, ev, ld, db, sy>>
    /\ UNCHANGED <<hlsSupported, canPlayType, src, adFilter, cur, hlsRef, blobs,
                   listener>>

\* Counters that live outside the effect and are carried from run to run.
NewListenerShared(old) ==
    [FreshListener EXCEPT !.networkErrorRetries = old.networkErrorRetries,
                          !.mediaErrorRetries = old.mediaErrorRetries]

\* The listener closure of a new run: its counters are declared inside the
\* effect body (lines 159-160).
NewListener(old) == FreshListener

\* One run of the effect body.
RunEffect ==
    /\ phase = "commit"
    /\ \E videoPresent \in BOOLEAN :
        LET s == cur + 1
            base == [NoSession EXCEPT !.src = src, !.adFilter = adFilter]
        IN
        IF ~videoPresent \/ src = ""
        THEN \* line 26: if (!video || !src) return
             /\ sess' = [sess EXCEPT ![s] = [base EXCEPT !.backend = "skipped"]]
             /\ listener' = NewListener(listener)
             /\ UNCHANGED <<hlsRef, hlsDestroyCalls, videoSrc>>
        ELSE LET b == SelectBackend(hlsSupported, isNativeHlsSupported, adFilter)
                 \* lines 29-32: cleanup previous HLS instance
                 v0 == DetachMedia(videoSrc, hlsDestroyCalls, hlsRef)
             IN
             /\ hlsDestroyCalls' = DestroyCalls(hlsDestroyCalls, hlsRef)
             /\ hlsRef' = IF b = "intercept" THEN s ELSE 0
             /\ videoSrc' = CASE b = "intercept" -> Mse(s)
                              [] b = "passthrough" -> Url(src)
                              [] OTHER -> v0
             /\ sess' = [sess EXCEPT ![s] =
                    [base EXCEPT
                       !.backend = b,
                       !.hls = IF b = "intercept" THEN s ELSE 0,
                       !.res = IF b = "resolver" THEN "fetching" ELSE "none",
                       !.assigned = IF b = "passthrough" THEN Url(src) ELSE Nothing]]
             /\ listener' = [NewListener(listener) EXCEPT
                                !.reports = UnsupportedReports(b)]
    /\ cur' = cur + 1
    /\ phase' = "idle"
    /\ UNCHANGED <<rw, rs, ev, ld, db, sy>>
    /\ UNCHANGED <<hlsSupported, canPlayType, src, adFilter, blobs, revoked>>

----------------------------------------------------------------------------
(* The Hls.Events.ERROR listener, lines 163-192. *)

RetryAllowedStrict(n) == n < MAX_RETRIES

RetryAllowed(n) == n <= MAX_RETRIES

\* case Hls.ErrorTypes.NETWORK_ERROR
OnFatalNetwork(se) ==
    LET n == se.networkErrorRetries + 1
        se1 == [se EXCEPT !.networkErrorRetries = n]
    IN IF RetryAllowed(n)
       THEN [s |-> [se1 EXCEPT !.startLoads = @ + 1], destroy |-> FALSE]
       ELSE [s |-> [se1 EXCEPT !.reports = Append(@, Report("network", ""))],
             destroy |-> TRUE]

\* A media branch that counts on the network counter.
OnFatalMediaShared(se) ==
    LET n == se.networkErrorRetries + 1
        se1 == [se EXCEPT !.networkErrorRetries = n]
    IN IF RetryAllowed(n)
       THEN [s |-> [se1 EXCEPT !.recovers = @ + 1], destroy |-> FALSE]
       ELSE [s |-> [se1 EXCEPT !.reports = Append(@, Report("media", ""))],
             destroy |-> TRUE]

\* case Hls.ErrorTypes.MEDIA_ERROR
OnFatalMedia(se) ==
    LET n == se.mediaErrorRetries + 1
        se1 == [se EXCEPT !.mediaErrorRetries = n]
    IN IF RetryAllowed(n)
       THEN [s |-> [se1 EXCEPT !.recovers = @ + 1], destroy |-> FALSE]
       ELSE [s |-> [se1 EXCEPT !.reports = Append(@, Report("media", ""))],
             destroy |-> TRUE]

\* A default branch that resumes loading instead of giving up.
OnFatalOtherRetry(se, details) ==
    [s |-> [se EXCEPT !.startLoads = @ + 1], destroy |-> FALSE]

\* default: data.details || 'unknown'
OnFatalOther(se, details) ==
    [s |-> [se EXCEPT !.reports =
               Append(@, Report("fatal", IF details = "" THEN "unknown" ELSE details))],
     destroy |-> TRUE]

ErrorListener(se, type, details) ==
    CASE type = "networkError" -> OnFatalNetwork(se)
      [] type = "mediaError" -> OnFatalMedia(se)
      [] OTHER -> OnFatalOther(se, details)

\* What the environment fed to the session, kept beside the closure.
Fed(se, type, details) ==
    CASE type = "networkError" -> [se EXCEPT !.netFed = @ + 1]
      [] type = "mediaError" -> [se EXCEPT !.mediaFed = @ + 1]
      [] OTHER -> [se EXCEPT !.otherFed = @ + 1, !.otherDetail = details]

\* A live Hls instance emits a fatal error event.
HlsFatalError ==
    /\ phase = "idle"
    /\ cur > 0
    /\ Live(sess[cur].hls)
    /\ \E type \in ErrorTypes, details \in Details :
        LET r == ErrorListener(listener, type, details)
            h == IF r.destroy THEN sess[cur].hls ELSE 0
        IN /\ listener' = Fed(r.s, type, details)
           /\ hlsDestroyCalls' = DestroyCalls(hlsDestroyCalls, h)
           /\ videoSrc' = DetachMedia(videoSrc, hlsDestroyCalls, h)
    /\ UNCHANGED <<rw, rs, ev, ld, db, sy>>
    /\ UNCHANGED <<hlsSupported, canPlayType, src, adFilter, phase, cur, hlsRef,
                   blobs, revoked, sess>>

\* A live Hls instance emits an error event with data.fatal = false.
HlsNonFatalError ==
    /\ phase = "idle"
    /\ cur > 0
    /\ Live(sess[cur].hls)
    /\ UNCHANGED vars

----------------------------------------------------------------------------
(* processMasterPlaylist, lines 205-284, and its then/catch, lines 286-296. *)

\* masterContent.includes('#EXT-X-STREAM-INF')
HasStreamInf(doc) == \E i \in 1..Len(doc) : doc[i] = "STREAM_INF"

\* The lines whose child playlist is fetched: lines 227-230 and 248-250.
IsChildLine(doc, i) ==
    \/ doc[i] = "MEDIA_REL"
    \/ i > 1 /\ doc[i - 1] = "STREAM_INF" /\ doc[i] = "REL"

AllSettled(child) == \A i \in 1..Len(child) : child[i] # "pending"

\* A catch that leaves the video without a source.
CatchSourceNone(se) == Nothing

\* .catch(() => { video.src = src })
CatchSource(se) == Url(se.src)

\* After Promise.all: the master blob is created and pushed (lines 271-279),
\* then the promise resolves: video.src = masterBlobUrl; extraBlobs = allBlobs.
Joined(se, s) ==
    LET all == se.createdBlobs \cup {Blob(s, 0)} IN
    [se EXCEPT !.res = "done", !.createdBlobs = all, !.extraBlobs = all,
               !.assigned = Blob(s, 0)]

\* fetch(masterSrc) or response.text() rejects: the promise rejects.
MasterFetchFails ==
    /\ phase # "commit"
    /\ \E s \in Sessions :
        /\ sess[s].res = "fetching"
        /\ videoSrc' = CatchSource(sess[s])
        /\ sess' = [sess EXCEPT ![s].res = "failed",
                                ![s].assigned = CatchSource(sess[s])]
    /\ UNCHANGED <<rw, rs, ev, ld, db, sy>>
    /\ UNCHANGED <<hlsSupported, canPlayType, src, adFilter, phase, cur, hlsRef,
                   hlsDestroyCalls, blobs, revoked, listener>>

\* The master text arrives.
MasterFetched ==
    /\ phase # "commit"
    /\ \E s \in Sessions, doc \in Playlists :
        /\ sess[s].res = "fetching"
        /\ LET child == [i \in 1..Len(doc) |->
                            IF IsChildLine(doc, i) THEN "pending" ELSE "none"]
               se == [sess[s] EXCEPT !.doc = doc, !.child = child]
           IN
           IF ~HasStreamInf(doc)
           THEN \* lines 211-216, then 287-289
                /\ blobs' = blobs \cup {Blob(s, 0)}
                /\ videoSrc' = Blob(s, 0)
                /\ sess' = [sess EXCEPT ![s] =
                       [se EXCEPT !.res = "done", !.child = [i \in 1..Len(doc) |-> "none"],
                                  !.objectUrl = Blob(s, 0), !.assigned = Blob(s, 0)]]
           ELSE IF AllSettled(child)
           THEN /\ blobs' = blobs \cup {Blob(s, 0)}
                /\ videoSrc' = Blob(s, 0)
                /\ sess' = [sess EXCEPT ![s] = Joined(se, s)]
           ELSE /\ sess' = [sess EXCEPT ![s] = [se EXCEPT !.res = "children"]]
                /\ UNCHANGED <<blobs, videoSrc>>
    /\ UNCHANGED <<rw, rs, ev, ld, db, sy>>
    /\ UNCHANGED <<hlsSupported, canPlayType, src, adFilter, phase, cur, hlsRef,
                   hlsDestroyCalls, revoked, listener>>

\* The fetch of the child playlist of line i settles (lines 231-243, 251-263).
ChildSettles ==
    /\ phase # "commit"
    /\ \E s \in Sessions, ok \in BOOLEAN :
        /\ sess[s].res = "children"
        /\ \E i \in 1..Len(sess[s].doc) :
            /\ sess[s].child[i] = "pending"
            /\ LET made == IF ok THEN {Blob(s, i)} ELSE {}
                   se == [sess[s] EXCEPT !.child[i] = IF ok THEN "ok" ELSE "failed",
                                         !.createdBlobs = @ \cup made]
               IN
               IF AllSettled(se.child)
               THEN /\ blobs' = blobs \cup made \cup {Blob(s, 0)}
                    /\ videoSrc' = Blob(s, 0)
                    /\ sess' = [sess EXCEPT ![s] = Joined(se, s)]
               ELSE /\ blobs' = blobs \cup made
                    /\ sess' = [sess EXCEPT ![s] = se]
                    /\ UNCHANGED videoSrc
    /\ UNCHANGED <<rw, rs, ev, ld, db, sy>>
    /\ UNCHANGED <<hlsSupported, canPlayType, src, adFilter, phase, cur, hlsRef,
                   hlsDestroyCalls, revoked, listener>>

----------------------------------------------------------------------------
(***************************************************************************)
(* Strings.  A string is the sequence of its tokens: a token is a run of   *)
(* characters that the code never looks inside ("seg1.ts", "cdn.example"), *)
(* and every character the code does look at is a token of its own ("/",   *)
(* " ") or ends one ("http:", "#EXTINF:", the quote that ends URI=").      *)
(* A playlist text is the sequence of its lines, i.e. the result of        *)
(* split(/\r?\n/) on it: EmptyText is the string '' (one empty line), and  *)
(* join('\n') of no lines is that same string.  No name token begins with  *)
(* the letters "http", "blob:", "#" or "/".                                *)
(***************************************************************************)
EmptyText == << <<>> >>

HttpTokens == {"http:", "https:"}

TagTokens ==
    {"#EXTINF:", "#EXT-X-DISCONTINUITY", "#EXT-X-KEY:", "#EXTM3U",
     "#EXT-X-STREAM-INF:", "#EXT-X-MEDIA:"}

RECURSIVE trimStart(_)
trimStart(t) == IF t # <<>> /\ Head(t) = " " THEN trimStart(Tail(t)) ELSE t

RECURSIVE trimEnd(_)
trimEnd(t) ==
    IF t # <<>> /\ t[Len(t)] = " " THEN trimEnd(SubSeq(t, 1, Len(t) - 1)) ELSE t

\* String.prototype.trim
trim(t) == trimEnd(trimStart(t))

\* String.prototype.includes
includes(t, k) == \E i \in 0..(Len(t) - Len(k)) : SubSeq(t, i + 1, i + Len(k)) = k

\* startsWith('http'), startsWith('blob:'), startsWith('#'), startsWith('/')
startsWithHttp(t) == t # <<>> /\ t[1] \in HttpTokens
startsWithBlob(t) == t # <<>> /\ t[1] = "blob:"
startsWithHash(t) == t # <<>> /\ t[1] \in TagTokens
startsWithSlash(t) == t # <<>> /\ t[1] = "/"

\* lastIndexOf(c), counted from 1; 0 when c does not occur (-1 in the code).
lastIndexOf(t, c) ==
    LET I == {i \in 1..Len(t) : t[i] = c}
    IN IF I = {} THEN 0 ELSE CHOOSE i \in I : \A j \in I : j <= i

\* processedLines.join('\n'), as the lines of the joined string.
join(ls) == IF ls = <<>> THEN EmptyText ELSE ls

RECURSIVE splitFrom(_, _, _)
splitFrom(t, seps, part) ==
    IF t = <<>> THEN <<part>>
    ELSE IF Head(t) \in seps
         THEN <<part>> \o splitFrom(Tail(t), seps, <<>>)
         ELSE splitFrom(Tail(t), seps, Append(part, Head(t)))

\* String.prototype.split on a set of separator characters.
split(t, seps) == splitFrom(t, seps, <<>>)

----------------------------------------------------------------------------
(* filterM3u8Ad, src/lib/utils/m3u8-utils.ts lines 14-97. *)

\* The built-in keyword '/adjump/' (line 21).
DefaultKeyword == <<"/", "adjump", "/">>

\* Lines 18-21; env is process.env.NEXT_PUBLIC_AD_KEYWORDS, <<>> when it is
\* unset or empty.
Keywords(env) ==
    IF env # <<>>
    THEN LET parts == split(env, {",", "\n"})
         IN {trim(parts[i]) : i \in 1..Len(parts)} \ {<<>>}
    ELSE {DefaultKeyword}

\* Line 23.
basePath(baseUrl) == SubSeq(baseUrl, 1, lastIndexOf(baseUrl, "/"))

\* new URL(baseUrl) accepts scheme://host followed by nothing or by a path.
UrlParses(u) ==
    /\ Len(u) >= 4
    /\ u[1] \in HttpTokens /\ u[2] = "/" /\ u[3] = "/"
    /\ u[4] \notin {"/", " "}
    /\ Len(u) >= 5 => u[5] = "/"

\* Lines 24-27: the origin, or '' when new URL throws.
origin(baseUrl) == IF UrlParses(baseUrl) THEN SubSeq(baseUrl, 1, 4) ELSE <<>>

\* keywords.some(keyword => trimmedLine.includes(keyword))
MatchesKeyword(t, keywords) == \E k \in keywords : includes(t, k)

\* Line 32: keywords.some(k => content.includes(k)).  A keyword holds no line
\* break, so it occurs in the text exactly when it occurs in one of its lines.
HasAdMatch(content, keywords) ==
    \E i \in 1..Len(content) : MatchesKeyword(content[i], keywords)

IsExtinf(t) == t # <<>> /\ t[1] = "#EXTINF:"

IsDiscontinuity(t) == t = <<"#EXT-X-DISCONTINUITY">>

\* A backtrack that removes nothing.
BacktrackNone(buf) == buf

\* Lines 44-53: pop duration and discontinuity tags off the end of the output.
RECURSIVE Backtrack(_)
Backtrack(buf) ==
    IF buf = <<>> THEN buf
    ELSE LET lastLine == trim(buf[Len(buf)].text)
         IN IF IsExtinf(lastLine) \/ IsDiscontinuity(lastLine)
            THEN Backtrack(SubSeq(buf, 1, Len(buf) - 1))
            ELSE buf

\* A policy that keeps every discontinuity tag for the backtrack to decide.
KeepDiscontinuityAlways(hasAdMatch) == TRUE

\* A policy that drops every discontinuity tag.
KeepDiscontinuityNever(hasAdMatch) == FALSE

\* Lines 59-66: the discontinuity tag is pushed in smart mode only.
KeepDiscontinuity(hasAdMatch) == hasAdMatch

\* A rewrite that leaves the attribute value as it is.
RewriteUriNone(uri, bp) == uri

\* Lines 79-80.
RewriteUri(uri, bp) ==
    IF startsWithHttp(uri) \/ startsWithSlash(uri) THEN uri ELSE bp \o uri

\* The number of tokens before the first quote of t (Len(t) when none).
RECURSIVE UntilQuote(_)
UntilQuote(t) ==
    IF t = <<>> \/ Head(t) = "\"" THEN 0 ELSE 1 + UntilQuote(Tail(t))

\* A replacement that puts the base path in front of the whole tag line.
replaceUrisWhole(t, bp) == bp \o t

\* line.replace(/URI="([^"]+)"/g, ...), line 78.
RECURSIVE replaceUris(_, _)
replaceUris(t, bp) ==
    IF t = <<>> THEN <<>>
    ELSE IF Head(t) = "URI=\""
         THEN LET rest == Tail(t)
                  n == UntilQuote(rest)
              IN IF n >= 1 /\ n < Len(rest)
                 THEN <<Head(t)>> \o RewriteUri(SubSeq(rest, 1, n), bp) \o <<"\"">>
                         \o replaceUris(SubSeq(rest, n + 2, Len(rest)), bp)
                 ELSE <<Head(t)>> \o replaceUris(rest, bp)
         ELSE <<Head(t)>> \o replaceUris(Tail(t), bp)

\* A resolution that puts the origin in front of every relative line.
ResolveRelativeOrigin(t, bp, org) == org \o t

\* Lines 89-93.
ResolveRelative(t, bp, org) ==
    IF startsWithSlash(t)
    THEN IF org # <<>> THEN org \o t ELSE t
    ELSE bp \o t

\* One turn of the loop of lines 37-94 on line i.  The output buffer holds,
\* beside each pushed text, the index of the input line it was pushed for.
ProcessLine(buf, i, line, keywords, hasAdMatch, bp, org) ==
    LET trimmedLine == trim(line)
        push(x) == Append(buf, [idx |-> i, text |-> x])
    IN IF hasAdMatch /\ MatchesKeyword(trimmedLine, keywords)
       THEN Backtrack(buf)
       ELSE IF IsDiscontinuity(trimmedLine)
       THEN IF KeepDiscontinuity(hasAdMatch) THEN push(line) ELSE buf
       ELSE IF trimmedLine = <<>> \/ startsWithHttp(trimmedLine)
                  \/ startsWithBlob(trimmedLine)
       THEN push(line)
       ELSE IF startsWithHash(trimmedLine)
       THEN IF includes(trimmedLine, <<"URI=\"">>)
            THEN push(replaceUris(line, bp))
            ELSE push(line)
       ELSE push(ResolveRelative(trimmedLine, bp, org))

RECURSIVE ProcessFrom(_, _, _, _, _, _, _)
ProcessFrom(lines, i, buf, keywords, hasAdMatch, bp, org) ==
    IF i > Len(lines) THEN buf
    ELSE ProcessFrom(lines, i + 1,
                     ProcessLine(buf, i, lines[i], keywords, hasAdMatch, bp, org),
                     keywords, hasAdMatch, bp, org)

\* processedLines at line 96, with the input index of every line.
FilterTrace(content, baseUrl, env) ==
    IF content = EmptyText THEN <<>>
    ELSE LET keywords == Keywords(env)
         IN ProcessFrom(content, 1, <<>>, keywords, HasAdMatch(content, keywords),
                        basePath(baseUrl), origin(baseUrl))

Texts(buf) == [j \in 1..Len(buf) |-> buf[j].text]

filterM3u8Ad(content, baseUrl, env) == join(Texts(FilterTrace(content, baseUrl, env)))

----------------------------------------------------------------------------
(* Calls of filterM3u8Ad: the arguments it is called with. *)

\* Longest playlist, in lines, among the enumerated ones.
MaxLines == 3

Extinf5 == <<"#EXTINF:", "5">>
Extinf3 == <<"#EXTINF:", "3">>
Discontinuity == <<"#EXT-X-DISCONTINUITY">>
AbsSegA == <<"http:", "/", "/", "h", "/", "a.ts">>
AbsSegB == <<"http:", "/", "/", "h", "/", "b.ts">>
AbsAd == <<"http:", "/", "/", "h", "/", "adjump", "/", "x.ts">>
RelSeg == <<"seg1.ts">>
RootSeg == <<"/", "seg1.ts">>
RelAd == <<"adjump", "/", "x.ts">>
KeyRel == <<"#EXT-X-KEY:", "URI=\"", "key.bin", "\"">>
KeyMixed ==
    <<" ", "#EXT-X-KEY:", "URI=\"", "http:", "/", "/", "h", "/", "k", "\"",
      "URI=\"", "/", "k", "\"", "URI=\"", "\"", "URI=\"", "k2", "\"">>
Blank == <<>>
Padded == <<" ", "seg1.ts", " ">>
OtherTag == <<"#EXTM3U">>
BlobLine == <<"blob:", "b">>

\* The lines every enumerated playlist is made of.
Lines == {Extinf5, Discontinuity, AbsSegA, AbsAd, RelSeg, RootSeg, RelAd,
          KeyRel, Blank, Padded, OtherTag, BlobLine}

\* Longer playlists: a stream with an ad break, runs of tags before an ad,
\* a tag with several URI attributes.
AdBreakPlaylist == <<Extinf5, AbsSegA, Extinf3, AbsAd, Extinf5, AbsSegB>>
TagRunPlaylist == <<AbsSegA, Discontinuity, Discontinuity, Extinf3, AbsAd>>
TwoBreaksPlaylist ==
    <<Extinf5, AbsSegA, Discontinuity, Extinf3, AbsAd, Discontinuity, Extinf5,
      AbsSegB, Discontinuity, Extinf5, RelSeg>>
KeyPlaylist == <<KeyMixed, Extinf5, RelSeg>>

\* A duration tag whose title holds the text of the built-in keyword.
ExtinfTitled == <<"#EXTINF:", "5", ",", "/", "adjump", "/">>
TitledPlaylist == <<ExtinfTitled, RelSeg, Extinf5, AbsSegA>>

Contents ==
    UNION {[1..n -> Lines] : n \in 1..MaxLines}
      \cup {AdBreakPlaylist, TagRunPlaylist, TwoBreaksPlaylist, KeyPlaylist,
            TitledPlaylist}

BaseCdn == <<"http:", "/", "/", "cdn.example", "/", "path", "/", "master.m3u8">>
BaseAdPath == <<"https:", "/", "/", "h", "/", "adjump", "/", "m.m3u8">>
BaseMalformed == <<"master.m3u8">>
BaseRelative == <<"path", "/", "master.m3u8">>

\* context.url / masterSrc / absoluteUrl: well-formed, or not a URL at all.
BaseUrls == {BaseCdn, BaseAdPath, BaseMalformed, BaseRelative}

\* process.env.NEXT_PUBLIC_AD_KEYWORDS: unset, " x.ts,", or ", ".
Envs == {<<>>, <<" ", "x.ts", ",">>, <<",", " ">>}

InitRewrite ==
    /\ hlsSupported = FALSE
    /\ canPlayType = ""
    /\ src = ""
    /\ adFilter = FALSE
    /\ phase = "unmounted"
    /\ cur = 0
    /\ hlsRef = 0
    /\ hlsDestroyCalls = [i \in Sessions |-> 0]
    /\ videoSrc = Nothing
    /\ blobs = {}
    /\ revoked = {}
    /\ sess = [s \in Sessions |-> NoSession]
    /\ listener = FreshListener
    /\ rs = NoCall
    /\ ev = NoCall
    /\ ld = NoCall
    /\ db = NoCall
    /\ sy = NoCall
    /\ \E content \in Contents, baseUrl \in BaseUrls, env \in Envs :
        rw = [pc |-> "called", content |-> content, baseUrl |-> baseUrl,
              env |-> env, trace |-> <<>>, out |-> EmptyText, again |-> EmptyText]

\* filterM3u8Ad(content, baseUrl) returns.
Rewrite ==
    /\ rw.pc = "called"
    /\ LET trace == FilterTrace(rw.content, rw.baseUrl, rw.env)
       IN rw' = [rw EXCEPT !.pc = "returned", !.trace = trace,
                           !.out = join(Texts(trace))]
    /\ UNCHANGED <<hookVars, rs, ev, ld, db, sy>>

\* The result is handed to filterM3u8Ad once more, with the same base URL.
RewriteAgain ==
    /\ rw.pc = "returned"
    /\ rw' = [rw EXCEPT !.pc = "returnedAgain",
                        !.again = filterM3u8Ad(rw.out, rw.baseUrl, rw.env)]
    /\ UNCHANGED <<hookVars, rs, ev, ld, db, sy>>

----------------------------------------------------------------------------
(***************************************************************************)
(* processMasterPlaylist (src/unnamed/part_000 lines 205-284), one call,   *)
(* with the texts it handles.  rs.lines is masterContent.split(/\r?\n/);   *)
(* rs.task[i] and rs.processed[i] are the state and the value of           *)
(* lineProcessingPromises[i]; rs.store is what URL.createObjectURL has     *)
(* been given, in call order: blob URL number k stands for the text        *)
(* rs.store[k].text, made for line rs.store[k].line (0: the entry point).  *)
(* rs.fetches counts the fetch() calls; rs.videoSrc, rs.objectUrl and      *)
(* rs.extraBlobs are video.src and the closure variables that the handlers *)
(* of the promise (lines 286-296) assign.                                  *)
(***************************************************************************)
StreamInf == <<"#EXT-X-STREAM-INF:", "BANDWIDTH=1">>
MediaRel == <<"#EXT-X-MEDIA:", "TYPE=AUDIO", "URI=\"", "audio.m3u8", "\"">>
MediaAbs ==
    <<"#EXT-X-MEDIA:", "TYPE=AUDIO", "URI=\"", "http:", "/", "/", "h", "/",
      "audio.m3u8", "\"">>
Variant1 == <<"v1.m3u8">>
Variant2 == <<" ", "v2.m3u8">>
Variant3 == <<"/", "v3.m3u8">>
AbsVariant == <<"http:", "/", "/", "h", "/", "v.m3u8">>

ThreeVariants ==
    <<OtherTag, StreamInf, Variant1, StreamInf, Variant2, StreamInf, Variant3>>
MediaAndVariant == <<MediaRel, StreamInf, Variant1>>
AbsoluteChildren == <<MediaAbs, StreamInf, AbsVariant>>
KeyedMaster == <<KeyRel, StreamInf, Variant1>>
MixedChildren == <<MediaAbs, StreamInf, Variant1, StreamInf, AbsVariant>>
MediaPlaylist == <<Extinf5, RelSeg>>

\* What fetch(masterSrc) answers with.
MasterContents ==
    {ThreeVariants, MediaAndVariant, AbsoluteChildren, KeyedMaster, MixedChildren,
     MediaPlaylist}

\* What the fetch of a child playlist answers with.
ChildContents == {MediaPlaylist, AdBreakPlaylist}

\* The value of a promise that has not settled.
Pending == <<"<pending>">>

\* The blob URL that the k-th call of URL.createObjectURL returns.
BlobUrl(k) == <<"blob:", ToString(k)>>

\* masterContent.includes('#EXT-X-STREAM-INF'), line 211.
includesStreamInf(content) ==
    \E i \in 1..Len(content) : includes(content[i], <<"#EXT-X-STREAM-INF:">>)

\* trimmedLine.match(/URI="([^"]+)"/)?.[1], lines 228-229; <<>> when absent.
RECURSIVE FirstUri(_)
FirstUri(t) ==
    IF t = <<>> THEN <<>>
    ELSE IF Head(t) = "URI=\""
              /\ UntilQuote(Tail(t)) >= 1 /\ UntilQuote(Tail(t)) < Len(Tail(t))
         THEN SubSeq(Tail(t), 1, UntilQuote(Tail(t)))
         ELSE FirstUri(Tail(t))

\* Lines 227-230: a media tag whose URI is fetched.
IsMediaChild(lines, i) ==
    LET trimmedLine == trim(lines[i])
    IN /\ trimmedLine # <<>> /\ trimmedLine[1] = "#EXT-X-MEDIA:"
       /\ includes(trimmedLine, <<"URI=\"">>)
       /\ FirstUri(trimmedLine) # <<>>
       /\ ~startsWithHttp(FirstUri(trimmedLine))

\* A variant rule that fetches absolute lines as well.
IsVariantChildAny(lines, i) ==
    LET trimmedLine == trim(lines[i])
        prevLine == IF i > 1 THEN trim(lines[i - 1]) ELSE <<>>
    IN /\ prevLine # <<>> /\ prevLine[1] = "#EXT-X-STREAM-INF:"
       /\ trimmedLine # <<>> /\ ~startsWithHash(trimmedLine)

\* Lines 248-250: the line after a stream tag, fetched unless it is absolute.
IsVariantChild(lines, i) ==
    LET trimmedLine == trim(lines[i])
        prevLine == IF i > 1 THEN trim(lines[i - 1]) ELSE <<>>
    IN /\ prevLine # <<>> /\ prevLine[1] = "#EXT-X-STREAM-INF:"
       /\ trimmedLine # <<>> /\ ~startsWithHash(trimmedLine)
       /\ ~startsWithHttp(trimmedLine)

IsChild(lines, i) == IsMediaChild(lines, i) \/ IsVariantChild(lines, i)

\* The URI the child of line i is named by.
ChildUri(lines, i) ==
    IF IsMediaChild(lines, i) THEN FirstUri(trim(lines[i])) ELSE trim(lines[i])

\* new URL(relativeUri, masterSrc).toString(), lines 232 and 252.
ResolveUrl(rel, base) ==
    IF startsWithSlash(rel) THEN origin(base) \o rel ELSE basePath(base) \o rel

\* line.replace(a, b): the first occurrence of a in t becomes b.
RECURSIVE replaceFirst(_, _, _)
replaceFirst(t, a, b) ==
    IF Len(t) < Len(a) THEN t
    ELSE IF SubSeq(t, 1, Len(a)) = a
         THEN b \o SubSeq(t, Len(a) + 1, Len(t))
         ELSE <<Head(t)>> \o replaceFirst(Tail(t), a, b)

\* Lines 239 and 259: what the promise of line i resolves to, given the blob
\* URL of its child.
Substituted(lines, i, url) ==
    IF IsMediaChild(lines, i)
    THEN replaceFirst(lines[i], <<"URI=\"">> \o ChildUri(lines, i) \o <<"\"">>,
                      <<"URI=\"">> \o url \o <<"\"">>)
    ELSE url

\* Lines 240-243 and 260-263: catch (e) { return line }.
Fallback(lines, i, base) == lines[i]

\* A slot taken in the order in which the children complete.
SlotByCompletion(r, i) ==
    LET children == {k \in 1..Len(r.lines) : r.task[k] # "none"}
        done == Cardinality({k \in children : r.task[k] # "pending"})
    IN CHOOSE k \in children : Cardinality({m \in children : m < k}) = done

\* lines.map(...) and Promise.all (lines 223, 271): the value of the promise
\* of line i is element i of processedLines.
SlotOf(r, i) == i

\* A join that goes ahead as soon as one child has settled.
JoinReadyAny(task) ==
    \/ \A i \in 1..Len(task) : task[i] = "none"
    \/ \E i \in 1..Len(task) : task[i] \in {"ok", "failed"}

\* await Promise.all(lineProcessingPromises), line 271.
JoinReady(task) == \A i \in 1..Len(task) : task[i] # "pending"

\* Lines 274-279: the master blob is made of the joined lines.
JoinMaster(r) ==
    LET k == Len(r.store) + 1
    IN [r EXCEPT !.pc = "resolved",
                 !.store = Append(@, [line |-> 0, text |-> join(r.processed)]),
                 !.createdBlobs = Append(@, k),
                 !.result = [string |-> FALSE, masterBlobUrl |-> k,
                             allBlobs |-> Append(r.createdBlobs, k)]]

\* A leaf playlist that is materialized as it was fetched.
LeafTextRaw(content, masterSrc) == content

\* const filtered = filterM3u8Ad(masterContent, masterSrc), line 212
LeafText(content, masterSrc) == filterM3u8Ad(content, masterSrc, <<>>)

\* .then((result) => ...), lines 286-293: typeof result === 'string' is the
\* leaf result.
ThenHandler(r) ==
    IF r.result.string
    THEN [r EXCEPT !.handled = TRUE,
                   !.videoSrc = BlobUrl(r.result.masterBlobUrl),
                   !.objectUrl = BlobUrl(r.result.masterBlobUrl)]
    ELSE [r EXCEPT !.handled = TRUE,
                   !.videoSrc = BlobUrl(r.result.masterBlobUrl),
                   !.extraBlobs = [j \in 1..Len(r.result.allBlobs) |->
                                      BlobUrl(r.result.allBlobs[j])]]

\* .catch(() => { video.src = src }), lines 294-296
CatchHandler(r) == [r EXCEPT !.handled = TRUE, !.videoSrc = r.masterSrc]

\* The blob URLs the cleanup of the run revokes, lines 310-313.
Revokes(r) ==
    (IF r.objectUrl # <<>> THEN {r.objectUrl} ELSE {})
        \cup {r.extraBlobs[j] : j \in 1..Len(r.extraBlobs)}

\* The continuation of processMasterPlaylist once a promise has settled.
AfterSettle(r) == IF r.pc = "children" /\ JoinReady(r.task) THEN JoinMaster(r) ELSE r

InitResolve ==
    /\ hlsSupported = FALSE
    /\ canPlayType = "maybe"
    /\ src = ""
    /\ adFilter = TRUE
    /\ phase = "unmounted"
    /\ cur = 0
    /\ hlsRef = 0
    /\ hlsDestroyCalls = [i \in Sessions |-> 0]
    /\ videoSrc = Nothing
    /\ blobs = {}
    /\ revoked = {}
    /\ sess = [s \in Sessions |-> NoSession]
    /\ listener = FreshListener
    /\ rw = NoCall
    /\ ev = NoCall
    /\ ld = NoCall
    /\ db = NoCall
    /\ sy = NoCall
    /\ \E masterSrc \in {BaseCdn, BaseAdPath} :
        rs = [pc |-> "fetching", masterSrc |-> masterSrc, lines |-> <<>>,
              task |-> <<>>, processed |-> <<>>, createdBlobs |-> <<>>,
              store |-> <<>>,
              result |-> [string |-> FALSE, masterBlobUrl |-> 0, allBlobs |-> <<>>],
              fetches |-> 1, handled |-> FALSE,
              videoSrc |-> <<>>, objectUrl |-> <<>>, extraBlobs |-> <<>>]

\* fetch(masterSrc) or response.text() rejects (lines 207-208, 280-283).
ResolveMasterFails ==
    /\ rs.pc = "fetching"
    /\ rs' = [rs EXCEPT !.pc = "rejected"]
    /\ UNCHANGED <<hookVars, rw, ev, ld, db, sy>>

\* The master text arrives and has no stream tag (lines 211-216).
ResolveLeaf ==
    /\ rs.pc = "fetching"
    /\ \E content \in MasterContents :
        /\ ~includesStreamInf(content)
        /\ rs' = [rs EXCEPT
                    !.pc = "resolved",
                    !.lines = content,
                    !.task = [i \in 1..Len(content) |-> "none"],
                    !.store = <<[line |-> 0,
                                 text |-> LeafText(content, rs.masterSrc)]>>,
                    !.result = [string |-> TRUE, masterBlobUrl |-> 1,
                                allBlobs |-> <<>>]]
    /\ UNCHANGED <<hookVars, rw, ev, ld, db, sy>>

\* The master text arrives and has a stream tag: one promise per line
\* (lines 219-269); the lines without a child resolve to themselves.
ResolveMaster ==
    /\ rs.pc = "fetching"
    /\ \E content \in MasterContents :
        /\ includesStreamInf(content)
        /\ LET task == [i \in 1..Len(content) |->
                           IF IsChild(content, i) THEN "pending" ELSE "none"]
               r == [rs EXCEPT
                       !.pc = "children",
                       !.lines = content,
                       !.task = task,
                       !.fetches = @ + Cardinality({i \in 1..Len(content) :
                                                      task[i] = "pending"}),
                       !.processed = [i \in 1..Len(content) |->
                           IF task[i] = "pending" THEN Pending ELSE content[i]]]
           IN rs' = AfterSettle(r)
    /\ UNCHANGED <<hookVars, rw, ev, ld, db, sy>>

\* The child playlist of line i arrives: it is rewritten against its own URL
\* and stored, and the promise of the line resolves (lines 233-239, 253-259).
ResolveChildOk ==
    /\ rs.pc \in {"children", "resolved"}
    /\ \E i \in 1..Len(rs.lines), subContent \in ChildContents :
        /\ rs.task[i] = "pending"
        /\ LET absoluteUrl == ResolveUrl(ChildUri(rs.lines, i), rs.masterSrc)
               k == Len(rs.store) + 1
               slot == SlotOf(rs, i)
               r == [rs EXCEPT
                       !.task[i] = "ok",
                       !.store = Append(@, [line |-> i,
                                            text |-> filterM3u8Ad(subContent, absoluteUrl, <<>>)]),
                       !.createdBlobs = Append(@, k),
                       !.processed[slot] = Substituted(rs.lines, i, BlobUrl(k))]
           IN rs' = AfterSettle(r)
    /\ UNCHANGED <<hookVars, rw, ev, ld, db, sy>>

\* The fetch of the child playlist of line i fails (lines 240-243, 260-263).
ResolveChildFails ==
    /\ rs.pc \in {"children", "resolved"}
    /\ \E i \in 1..Len(rs.lines) :
        /\ rs.task[i] = "pending"
        /\ LET slot == SlotOf(rs, i)
               r == [rs EXCEPT
                       !.task[i] = "failed",
                       !.processed[slot] = Fallback(rs.lines, i, rs.masterSrc)]
           IN rs' = AfterSettle(r)
    /\ UNCHANGED <<hookVars, rw, ev, ld, db, sy>>

\* The promise of processMasterPlaylist(src) is fulfilled: the handler of
\* lines 286-293 runs.
ResolveThen ==
    /\ rs.pc = "resolved"
    /\ ~rs.handled
    /\ rs' = ThenHandler(rs)
    /\ UNCHANGED <<hookVars, rw, ev, ld, db, sy>>

\* The promise is rejected: the handler of lines 294-296 runs.
ResolveCatch ==
    /\ rs.pc = "rejected"
    /\ ~rs.handled
    /\ rs' = CatchHandler(rs)
    /\ UNCHANGED <<hookVars, rw, ev, ld, db, sy>>

----------------------------------------------------------------------------
(***************************************************************************)
(* One effect run and the events of its Hls instance (lines 120-192).      *)
(* ev.listener is the closure of the ERROR listener, as in the hook;       *)
(* ev.listener.reports are the calls of the onError prop, ev.prevented the *)
(* calls of the onAutoPlayPrevented prop, ev.warns the console.warn calls  *)
(* made for a rejected play().  video.play() returns a promise that the    *)
(* browser settles later: ev.pending counts the unsettled promises by the  *)
(* handler that made the call, ev.blocked the promises it rejected.        *)
(* ev.start is data.frag.start of the last FRAG_LOADED event, ev.nonFatal  *)
(* the number of error events with data.fatal = false.                     *)
(***************************************************************************)

\* FRAG_LOADED events one run is followed through.
MaxFrags == 2

\* Error events with data.fatal = false one run is followed through.
MaxNonFatal == 1

\* data.frag.start of a loaded fragment, in seconds.
FragStarts == {0, 10}

\* No fragment has been loaded yet.
NoStart == -1

\* level.videoCodec: absent, or the codec string of the variant.
NoCodec == [defined |-> FALSE, name |-> <<>>]
Codec(name) == [defined |-> TRUE, name |-> name]
Avc == Codec(<<"avc", "1.64001f">>)
Hev == Codec(<<"hev", "1.1.6.L93.B0">>)
HevUpper == Codec(<<"HEV", "1.1.6.L93.B0">>)
Hvc == Codec(<<"hvc", "1.1.6.L93.B0">>)
H265 == Codec(<<"h265">>)

\* hls.levels when MANIFEST_PARSED is delivered.
LevelLists ==
    {<<>>, <<NoCodec>>, <<Avc>>, <<Avc, Hev>>, <<HevUpper>>, <<Hvc, Avc>>, <<H265>>}

\* String.prototype.toLowerCase on the tokens that have capitals.
toLowerCase(t) ==
    [i \in 1..Len(t) |-> CASE t[i] = "HEV" -> "hev"
                           [] t[i] = "HVC" -> "hvc"
                           [] t[i] = "H265" -> "h265"
                           [] OTHER -> t[i]]

\* levels && levels.length > 0 && levels.some(level => ...), lines 137-142
hasHEVC(levels) ==
    /\ Len(levels) > 0
    /\ \E i \in 1..Len(levels) :
        /\ levels[i].videoCodec.defined
        /\ \/ includes(toLowerCase(levels[i].videoCodec.name), <<"hev">>)
           \/ includes(toLowerCase(levels[i].videoCodec.name), <<"h265">>)

\* onError?.('HEVC/H.265 detected ...'), line 145
HevcReports(levels) ==
    IF hasHEVC(levels) THEN <<Report("hevc", "")>> ELSE <<>>

Level(codec) == [videoCodec |-> codec]

InitEvents ==
    /\ hlsSupported = FALSE
    /\ canPlayType = ""
    /\ src = ""
    /\ adFilter = FALSE
    /\ phase = "unmounted"
    /\ cur = 0
    /\ hlsRef = 0
    /\ hlsDestroyCalls = [i \in Sessions |-> 0]
    /\ videoSrc = Nothing
    /\ blobs = {}
    /\ revoked = {}
    /\ sess = [s \in Sessions |-> NoSession]
    /\ listener = FreshListener
    /\ rw = NoCall
    /\ rs = NoCall
    /\ ld = NoCall
    /\ db = NoCall
    /\ sy = NoCall
    /\ \E hlsSup \in BOOLEAN, native \in BOOLEAN, filter \in BOOLEAN,
          autoPlay \in BOOLEAN, codecs \in LevelLists :
        LET b == SelectBackend(hlsSup, native, filter) IN
        ev = [pc |-> "run", backend |-> b, autoPlay |-> autoPlay,
              levels |-> [i \in 1..Len(codecs) |-> Level(codecs[i])],
              parsed |-> FALSE, frags |-> 0, paused |-> TRUE,
              pending |-> [manifest |-> 0, frag |-> 0],
              destroyed |-> FALSE,
              listener |-> [FreshListener EXCEPT !.reports = UnsupportedReports(b)],
              start |-> NoStart, blocked |-> 0, nonFatal |-> 0,
              prevented |-> 0, warns |-> 0]

\* The handlers are registered on the Hls instance of the run, and
\* destroy() removes them.
Listening == ev.pc = "run" /\ ev.backend = "intercept" /\ ~ev.destroyed

\* video.play() is called (lines 129, 151) when the handler asks for it.
PlayCalls(e, wanted, source) ==
    IF wanted THEN [e EXCEPT !.pending[source] = @ + 1] ELSE e

\* Hls.Events.MANIFEST_PARSED, lines 134-156.
OnManifestParsed(e) ==
    PlayCalls([e EXCEPT !.parsed = TRUE,
                        !.listener.reports = @ \o HevcReports(e.levels)],
              e.autoPlay, "manifest")

\* Hls.Events.FRAG_LOADED, lines 127-131.
OnFragLoaded(e, start) ==
    PlayCalls([e EXCEPT !.frags = @ + 1, !.start = start],
              e.autoPlay /\ e.paused /\ start = 0, "frag")

\* .catch(console.warn), line 129
FragPlayCatch(e) == [e EXCEPT !.warns = @ + 1]

\* .catch((err) => onAutoPlayPrevented?.(err)), lines 151-154
ManifestPlayCatch(e) == [e EXCEPT !.prevented = @ + 1]

\* The catch handler of the play() call made by the handler `source`.
PlayCatch(e, source) ==
    IF source = "manifest" THEN ManifestPlayCatch(e) ELSE FragPlayCatch(e)

\* The stream metadata has been parsed.
EvManifestParsed ==
    /\ Listening
    /\ ~ev.parsed
    /\ ev' = OnManifestParsed(ev)
    /\ UNCHANGED <<hookVars, rw, rs, ld, db, sy>>

\* A fragment has been loaded.
EvFragLoaded ==
    /\ Listening
    /\ ev.parsed
    /\ ev.frags < MaxFrags
    /\ \E start \in FragStarts : ev' = OnFragLoaded(ev, start)
    /\ UNCHANGED <<hookVars, rw, rs, ld, db, sy>>

\* The browser settles a play() promise: playback starts, or the promise
\* is rejected and the catch handler of the call runs.
EvPlaySettles ==
    /\ ev.pc = "run"
    /\ \E source \in {"manifest", "frag"}, started \in BOOLEAN :
        /\ ev.pending[source] > 0
        /\ LET e == [ev EXCEPT !.pending[source] = @ - 1] IN
           ev' = IF started THEN [e EXCEPT !.paused = FALSE]
                 ELSE PlayCatch([e EXCEPT !.blocked = @ + 1], source)
    /\ UNCHANGED <<hookVars, rw, rs, ld, db, sy>>

\* The viewer pauses the video.
EvUserPauses ==
    /\ ev.pc = "run"
    /\ ~ev.paused
    /\ ev' = [ev EXCEPT !.paused = TRUE]
    /\ UNCHANGED <<hookVars, rw, rs, ld, db, sy>>

\* A handler that takes every error event for a fatal one.
OnErrorAlways(se, fatal, type, details) == ErrorListener(se, type, details)

\* hls.on(Hls.Events.ERROR, ...): if (data.fatal) { switch ... }, line 164
OnError(se, fatal, type, details) ==
    IF fatal THEN ErrorListener(se, type, details)
    ELSE [s |-> se, destroy |-> FALSE]

\* The Hls instance emits a fatal error event.
EvFatalError ==
    /\ Listening
    /\ \E type \in ErrorTypes, details \in Details :
        LET r == OnError(ev.listener, TRUE, type, details) IN
        ev' = [ev EXCEPT !.listener = Fed(r.s, type, details),
                         !.destroyed = r.destroy]
    /\ UNCHANGED <<hookVars, rw, rs, ld, db, sy>>

\* The Hls instance emits an error event with data.fatal = false.
EvNonFatalError ==
    /\ Listening
    /\ ev.nonFatal < MaxNonFatal
    /\ \E type \in ErrorTypes, details \in Details :
        LET r == OnError(ev.listener, FALSE, type, details) IN
        ev' = [ev EXCEPT !.listener = r.s, !.destroyed = r.destroy,
                         !.nonFatal = @ + 1]
    /\ UNCHANGED <<hookVars, rw, rs, ld, db, sy>>

----------------------------------------------------------------------------
(***************************************************************************)
(* One request of the engine through its loader (lines 45-65, 116-118).    *)
(* config.loader is AdFilterLoader when adFilter is set and the default    *)
(* loader otherwise; AdFilterLoader.load wraps callbacks.onSuccess for     *)
(* some requests and hands the request to the default loader, which calls  *)
(* callbacks.onSuccess once when the response has arrived, and             *)
(* callbacks.onError when it has not.  ld.seen is the response.data the    *)
(* engine's own success callback receives, ld.calls the number of times it *)
(* is called, ld.warned whether console.warn was called (line 57).         *)
(***************************************************************************)

\* context.type: playlist requests carry a type; fragment and key requests
\* carry none.
ContextTypes == {"manifest", "level", "audioTrack", "subtitleTrack", "none"}

\* response.data: a string, or an ArrayBuffer.
TextData(text) == [string |-> TRUE, body |-> text]
BinaryData == [string |-> FALSE, body |-> << <<"bytes">> >>]

ResponseData ==
    {TextData(EmptyText), TextData(AdBreakPlaylist), TextData(TagRunPlaylist),
     TextData(<<RelSeg>>), BinaryData}

\* context.url of the response: a string, or absent.
NoUrl == [defined |-> FALSE, href |-> <<>>]
ContextUrl(href) == [defined |-> TRUE, href |-> href]
ContextUrls == {ContextUrl(BaseCdn), ContextUrl(BaseMalformed), NoUrl}

\* filterM3u8Ad(content, undefined) returns '' for the empty content (line
\* 15 of m3u8-utils.ts) and throws a TypeError at baseUrl.substring (line
\* 23) for any other content.
FilterThrows(data, url) == data.body # EmptyText /\ ~url.defined

\* A loader that wraps the success callback of manifest requests only.
WrapsManifestOnly(filter, type) == filter /\ type = "manifest"

\* adFilter && (context.type === 'manifest' || context.type === 'level')
Wraps(filter, type) == filter /\ type \in {"manifest", "level"}

\* The wrapper of lines 51-61, up to the call of originalOnSuccess.
Filtered(data, url) ==
    IF ~data.string THEN [data |-> data, warned |-> FALSE]
    ELSE IF FilterThrows(data, url) THEN [data |-> data, warned |-> TRUE]
    ELSE [data |-> TextData(filterM3u8Ad(data.body, url.href, <<>>)),
          warned |-> FALSE]

\* callbacks.onSuccess as the default loader finds it after load().
OnSuccess(filter, type, data, url) ==
    IF Wraps(filter, type) THEN Filtered(data, url)
    ELSE [data |-> data, warned |-> FALSE]

InitLoad ==
    /\ hlsSupported = FALSE
    /\ canPlayType = ""
    /\ src = ""
    /\ adFilter = FALSE
    /\ phase = "unmounted"
    /\ cur = 0
    /\ hlsRef = 0
    /\ hlsDestroyCalls = [i \in Sessions |-> 0]
    /\ videoSrc = Nothing
    /\ blobs = {}
    /\ revoked = {}
    /\ sess = [s \in Sessions |-> NoSession]
    /\ listener = FreshListener
    /\ rw = NoCall
    /\ rs = NoCall
    /\ ev = NoCall
    /\ db = NoCall
    /\ sy = NoCall
    /\ \E filter \in BOOLEAN, type \in ContextTypes, url \in ContextUrls :
        ld = [pc |-> "loading", adFilter |-> filter, type |-> type, url |-> url,
              data |-> BinaryData, seen |-> BinaryData, calls |-> 0,
              warned |-> FALSE]

\* The response arrives: the default loader calls callbacks.onSuccess.
LoadSucceeds ==
    /\ ld.pc = "loading"
    /\ \E data \in ResponseData :
        LET r == OnSuccess(ld.adFilter, ld.type, data, ld.url) IN
        ld' = [ld EXCEPT !.pc = "delivered", !.data = data, !.seen = r.data,
                         !.calls = @ + 1, !.warned = r.warned]
    /\ UNCHANGED <<hookVars, rw, rs, ev, db, sy>>

\* The request fails: the default loader calls callbacks.onError, which
\* load() leaves as it was.
LoadFails ==
    /\ ld.pc = "loading"
    /\ ld' = [ld EXCEPT !.pc = "failed"]
    /\ UNCHANGED <<hookVars, rw, rs, ev, db, sy>>

----------------------------------------------------------------------------
(***************************************************************************)
(* useDebouncedSearch (src/unnamed/part_002) as SearchBox                  *)
(* (src/unnamed/part_001 lines 729-837) uses it.  db.enabled and           *)
(* db.minLength are the options of the mount; db.timeoutRef and            *)
(* db.lastQueryRef are the two refs; db.timers is the timer table of the   *)
(* browser: the setTimeout calls that have neither fired nor been cleared, *)
(* each with its id and the query its closure holds; db.calls lists the    *)
(* invocations of callback and db.searches those of onSearch.  db.query    *)
(* and db.isTyping are the query state and isTypingRef of SearchBox.       *)
(* db.lastOp names the latest call into the hook and db.tick changes at    *)
(* every such call; db.typed is the query of the latest debouncedSearch    *)
(* call, db.shortSince tells whether a                                     *)
(* debouncedSearch call with an empty or too-short query came after the    *)
(* latest invocation of callback, and db.cleared whether the clear button  *)
(* was used and only typing followed.                                      *)
(***************************************************************************)

\* Number of setTimeout calls of one mount.
MaxTimers == 3

\* Number of callback invocations of one mount.
MaxCalls == 3

\* What the user types or pastes: '', ' ', 'a', ' a', 'ab', 'b'.
Queries == {<<>>, <<" ">>, <<"a">>, <<" ", "a">>, <<"a", "b">>, <<"b">>}

\* The entries of the search history: addSearch stores trimmed, non-empty
\* queries (line 819).
HistoryItems == {trim(q) : q \in Queries} \ {<<>>}

\* The minLength option: the 1 of SearchBox and of the default, and 2.
MinLengths == {1, 2}

\* A clearTimer that forgets the timer without clearing it.
clearTimerForgets(h) == [h EXCEPT !.timeoutRef = 0]

\* Lines 25-30.
clearTimer(h) ==
    IF h.timeoutRef # 0
    THEN [h EXCEPT !.timers = {t \in @ : t.id # h.timeoutRef}, !.timeoutRef = 0]
    ELSE h

\* The callback SearchBox passes (part_001 lines 743-747).
callback(h, searchQuery) ==
    [h EXCEPT !.calls = Append(@, searchQuery),
              !.searches = IF trim(searchQuery) # <<>>
                           THEN Append(@, searchQuery) ELSE @,
              !.shortSince = FALSE]

\* An executeSearch that hands every long enough query to the callback.
executeSearchRepeats(h, query) ==
    IF ~h.enabled THEN h
    ELSE LET trimmedQuery == trim(query)
         IN IF Len(trimmedQuery) >= h.minLength
            THEN callback([h EXCEPT !.lastQueryRef = trimmedQuery], trimmedQuery)
            ELSE h

\* Lines 33-41.
executeSearch(h, query) ==
    IF ~h.enabled THEN h
    ELSE LET trimmedQuery == trim(query)
         IN IF Len(trimmedQuery) >= h.minLength /\ trimmedQuery # h.lastQueryRef
            THEN callback([h EXCEPT !.lastQueryRef = trimmedQuery], trimmedQuery)
            ELSE h

\* Lines 44-61.
debouncedSearch(h, query) ==
    LET called == [h EXCEPT !.lastOp = "debouncedSearch", !.tick = 1 - @,
                            !.typed = query,
                            !.shortSince = @ \/ Len(trim(query)) < h.minLength]
    IN IF ~h.enabled THEN called
       ELSE LET c == clearTimer(called)
                trimmedQuery == trim(query)
            IN IF Len(trimmedQuery) = 0 \/ Len(trimmedQuery) < h.minLength
               THEN [c EXCEPT !.lastQueryRef = <<>>]
               ELSE [c EXCEPT !.timeoutRef = c.nextId,
                              !.timers = @ \cup {[id |-> c.nextId, query |-> query]},
                              !.nextId = @ + 1]

\* Lines 64-67.
immediateSearch(h, query) ==
    executeSearch(clearTimer([h EXCEPT !.lastOp = "immediateSearch",
                                       !.tick = 1 - @]), query)

InitDebounce ==
    /\ hlsSupported = FALSE
    /\ canPlayType = ""
    /\ src = ""
    /\ adFilter = FALSE
    /\ phase = "unmounted"
    /\ cur = 0
    /\ hlsRef = 0
    /\ hlsDestroyCalls = [i \in Sessions |-> 0]
    /\ videoSrc = Nothing
    /\ blobs = {}
    /\ revoked = {}
    /\ sess = [s \in Sessions |-> NoSession]
    /\ listener = FreshListener
    /\ rw = NoCall
    /\ rs = NoCall
    /\ ev = NoCall
    /\ ld = NoCall
    /\ sy = NoCall
    /\ \E enabled \in BOOLEAN, minLength \in MinLengths :
        db = [pc |-> "mounted", enabled |-> enabled, minLength |-> minLength,
              timeoutRef |-> 0, timers |-> {}, nextId |-> 1,
              lastQueryRef |-> <<>>, calls |-> <<>>, searches |-> <<>>,
              query |-> <<>>, isTyping |-> FALSE, lastOp |-> "none", tick |-> 0,
              typed |-> <<>>, shortSince |-> FALSE, cleared |-> FALSE]

\* The mount can take one more timer and one more invocation of callback.
DebounceRoom ==
    /\ db.pc = "mounted"
    /\ db.nextId <= MaxTimers
    /\ Len(db.calls) < MaxCalls

\* handleQueryChange(newQuery), part_001 lines 782-790.
HandleQueryChange ==
    /\ DebounceRoom
    /\ \E newQuery \in Queries :
        LET typing == [db EXCEPT !.query = newQuery, !.isTyping = TRUE,
                                 !.cleared = @ /\ trim(newQuery) # <<>>]
        IN db' = IF db.enabled THEN debouncedSearch(typing, newQuery) ELSE typing
    /\ UNCHANGED <<hookVars, rw, rs, ev, ld, sy>>

\* handleInputBlur, part_001 lines 798-813, when the focus leaves the box.
HandleInputBlur ==
    /\ DebounceRoom
    /\ db' = IF db.isTyping /\ trim(db.query) # <<>>
             THEN LET stopped == [db EXCEPT !.isTyping = FALSE]
                  IN IF ~db.enabled
                     THEN [immediateSearch(stopped, db.query) EXCEPT !.cleared = FALSE]
                     ELSE stopped
             ELSE db
    /\ UNCHANGED <<hookVars, rw, rs, ev, ld, sy>>

\* handleSubmit, part_001 lines 816-826.
HandleSubmit ==
    /\ DebounceRoom
    /\ db' = IF trim(db.query) # <<>>
             THEN [immediateSearch(db, db.query) EXCEPT !.isTyping = FALSE,
                                                        !.cleared = FALSE]
             ELSE db
    /\ UNCHANGED <<hookVars, rw, rs, ev, ld, sy>>

\* The user picks an entry of the history, part_001 lines 768-774.
SelectHistoryItem ==
    /\ DebounceRoom
    /\ \E selectedQuery \in HistoryItems :
        db' = [immediateSearch([db EXCEPT !.query = selectedQuery], selectedQuery)
                  EXCEPT !.cleared = FALSE]
    /\ UNCHANGED <<hookVars, rw, rs, ev, ld, sy>>

\* handleClear, part_001 lines 829-837: the clear button.
HandleClear ==
    /\ DebounceRoom
    /\ db' = [clearTimer(db) EXCEPT !.query = <<>>, !.isTyping = FALSE,
                                    !.lastOp = "clearTimer", !.tick = 1 - @,
                                    !.cleared = TRUE]
    /\ UNCHANGED <<hookVars, rw, rs, ev, ld, sy>>

\* The delay of a pending timer has passed: its closure runs (lines 58-60).
TimerFires ==
    /\ db.pc = "mounted"
    /\ \E t \in db.timers :
        db' = [executeSearch([db EXCEPT !.timers = @ \ {t}], t.query)
                  EXCEPT !.cleared = FALSE]
    /\ UNCHANGED <<hookVars, rw, rs, ev, ld, sy>>

\* SearchBox is unmounted: the cleanup of lines 70-74 runs.
UnmountSearchBox ==
    /\ db.pc = "mounted"
    /\ db' = [clearTimer(db) EXCEPT !.pc = "unmounted", !.lastOp = "unmount",
                                    !.tick = 1 - @]
    /\ UNCHANGED <<hookVars, rw, rs, ev, ld, sy>>

----------------------------------------------------------------------------
(***************************************************************************)
(* useSubscriptionSync (src/unnamed/part_003), one component lifecycle,    *)
(* with the settings store it reads and writes.  sy.store is what          *)
(* settingsStore.getSettings() returns and what saveSettings replaces;     *)
(* sy.timers holds the pending setTimeout(sync, 1000) calls, named by the  *)
(* number of the effect run that made them, and sy.timeoutId is the one    *)
(* the cleanup of the latest effect run clears (0: that run returned at    *)
(* line 18).  sy.job[k] is the call of sync started by timer k: the local  *)
(* variables of lines 28-40 and the position i of the subscription whose   *)
(* fetch it awaits.  A call of sync runs without interruption up to its    *)
(* next await.  Times are minutes.  sy.runs counts the calls that got past *)
(* line 22, sy.saved tells whether line 78 has run, and sy.lateAdds holds  *)
(* the sources another actor stored while a sync was in flight.            *)
(***************************************************************************)

\* Number of subscriptions in the settings.
MaxSubs == 2

\* Number of writes of other actors to the settings store.
MaxWrites == 2

\* Line 7, in minutes.
SYNC_COOLDOWN_MS == 5

\* Date.now() at line 40.
Now == 10

\* lastUpdated of a subscription: never, long ago, within the cooldown.
LastUpdatedValues == {0, 1, 8}

\* The timers of one lifecycle: one per effect run.
TimerIds == 1..2

\* A source of a subscription, of its premium list, of another actor.
SubSource(id) == <<"sub", id>>
PremiumSource(id) == <<"premium", id>>
UserSource(n) == <<"user", n>>

\* What fetchSourcesFromUrl(sub.url) settles with.
FetchResults(id) ==
    {[ok |-> FALSE, normalSources |-> {}, premiumSources |-> {}]}
      \cup {[ok |-> TRUE, normalSources |-> n, premiumSources |-> p] :
                n \in {{}, {SubSource(id)}}, p \in {{}, {PremiumSource(id)}}}

\* mergeSources(current, fetched): the list with the fetched sources in it.
mergeSources(current, fetched) == current \cup fetched

IdleJob == [pc |-> "idle"]

\* Line 18 and line 22.
AlreadySynced(s) == s.hasSyncedRef \/ s.isSyncingRef

\* Lines 16-94: one run of the effect.
EffectRun(s) ==
    IF AlreadySynced(s) THEN [s EXCEPT !.timeoutId = 0, !.effects = @ + 1]
    ELSE [s EXCEPT !.effects = @ + 1, !.timeoutId = s.effects + 1,
                   !.timers = @ \cup {s.effects + 1}]

\* A cleanup that leaves the timer running.
EffectCleanupKeeps(s) == s

\* Line 94: the cleanup of the latest effect run.
EffectCleanup(s) == [s EXCEPT !.timers = @ \ {s.timeoutId}]

\* Line 46.
InCooldown(sub) == sub.lastUpdated # 0 /\ Now - sub.lastUpdated < SYNC_COOLDOWN_MS

\* Lines 29 and 42-48: the next subscription from position from on that is
\* fetched; 0 when there is none.
NextToFetch(settings, from) ==
    LET P == {p \in from..Len(settings.subscriptions) :
                 /\ settings.subscriptions[p].autoRefresh
                 /\ ~InCooldown(settings.subscriptions[p])}
    IN IF P = {} THEN 0 ELSE CHOOSE p \in P : \A q \in P : p <= q

\* Lines 78-83: the object handed to saveSettings.
SavedSettings(s, j) ==
    [j.settings EXCEPT !.sources = j.currentSources,
                       !.premiumSources = j.currentPremiumSources,
                       !.subscriptions = j.updatedSubscriptions]

\* Lines 77-89: the end of sync k; saveThrows tells whether saveSettings
\* throws.
FinishSync(s, k, saveThrows) ==
    LET j == s.job[k]
    IN IF j.anyChanged /\ saveThrows
       THEN [s EXCEPT !.isSyncingRef = FALSE, !.job[k].pc = "threw"]
       ELSE [s EXCEPT !.store = IF j.anyChanged THEN SavedSettings(s, j) ELSE @,
                      !.saved = @ \/ j.anyChanged,
                      !.hasSyncedRef = TRUE,
                      !.isSyncingRef = FALSE,
                      !.job[k].pc = "done"]

\* Lines 42-51: sync k goes on to its next fetch, or ends.
ContinueSync(s, k, from, saveThrows) ==
    LET p == NextToFetch(s.job[k].settings, from)
    IN IF p = 0 THEN FinishSync(s, k, saveThrows)
       ELSE [s EXCEPT !.job[k].pc = "fetching", !.job[k].i = p]

\* Lines 20-40: timer k runs sync; getThrows tells whether getSettings throws.
StartSync(s, k, getThrows, saveThrows) ==
    IF AlreadySynced(s) THEN [s EXCEPT !.job[k].pc = "skipped"]
    ELSE IF getThrows THEN [s EXCEPT !.runs = @ + 1, !.job[k].pc = "threw"]
    ELSE IF \A p \in 1..Len(s.store.subscriptions) : ~s.store.subscriptions[p].autoRefresh
    THEN [s EXCEPT !.runs = @ + 1, !.hasSyncedRef = TRUE, !.job[k].pc = "done"]
    ELSE ContinueSync(
            [s EXCEPT !.runs = @ + 1,
                      !.isSyncingRef = TRUE,
                      !.job[k] = [pc |-> "started", i |-> 0, settings |-> s.store,
                                  currentSources |-> s.store.sources,
                                  currentPremiumSources |-> s.store.premiumSources,
                                  updatedSubscriptions |-> s.store.subscriptions,
                                  anyChanged |-> FALSE]],
            k, 1, saveThrows)

\* Lines 51-74: the fetch of sync k settles with result.
AfterFetch(s, k, result) ==
    LET j == s.job[k]
    IN IF result.ok
       THEN [s EXCEPT
               !.job[k].currentSources =
                   IF result.normalSources # {}
                   THEN mergeSources(@, result.normalSources) ELSE @,
               !.job[k].currentPremiumSources =
                   IF result.premiumSources # {}
                   THEN mergeSources(@, result.premiumSources) ELSE @,
               !.job[k].updatedSubscriptions[j.i].lastUpdated = Now,
               !.job[k].anyChanged = TRUE]
       ELSE s

\* A sync is between its first await and its end.
InFlight(s) == \E k \in TimerIds : s.job[k].pc = "fetching"

InitSync ==
    /\ hlsSupported = FALSE
    /\ canPlayType = ""
    /\ src = ""
    /\ adFilter = FALSE
    /\ phase = "unmounted"
    /\ cur = 0
    /\ hlsRef = 0
    /\ hlsDestroyCalls = [i \in Sessions |-> 0]
    /\ videoSrc = Nothing
    /\ blobs = {}
    /\ revoked = {}
    /\ sess = [s \in Sessions |-> NoSession]
    /\ listener = FreshListener
    /\ rw = NoCall
    /\ rs = NoCall
    /\ ev = NoCall
    /\ ld = NoCall
    /\ db = NoCall
    /\ \E n \in 0..MaxSubs :
       \E auto \in [1..n -> BOOLEAN], last \in [1..n -> LastUpdatedValues] :
        sy = [pc |-> "unmounted",
              hasSyncedRef |-> FALSE, isSyncingRef |-> FALSE,
              timers |-> {}, timeoutId |-> 0, effects |-> 0,
              job |-> [k \in TimerIds |-> IdleJob],
              store |-> [sources |-> {}, premiumSources |-> {},
                         subscriptions |->
                             [p \in 1..n |-> [id |-> p, autoRefresh |-> auto[p],
                                              lastUpdated |-> last[p]]]],
              runs |-> 0, saved |-> FALSE, writes |-> 0, lateAdds |-> {}]

\* The component mounts: the effect runs, and under React StrictMode its
\* cleanup and the effect run once more in the same commit.
MountSync ==
    /\ sy.pc = "unmounted" /\ sy.effects = 0
    /\ \E strict \in BOOLEAN :
        sy' = [(IF strict THEN EffectRun(EffectCleanup(EffectRun(sy)))
                ELSE EffectRun(sy)) EXCEPT !.pc = "mounted"]
    /\ UNCHANGED <<hookVars, rw, rs, ev, ld, db>>

\* The component unmounts.
UnmountSync ==
    /\ sy.pc = "mounted"
    /\ sy' = [EffectCleanup(sy) EXCEPT !.pc = "unmounted"]
    /\ UNCHANGED <<hookVars, rw, rs, ev, ld, db>>

\* The second of a pending timer has passed: sync is called.
SyncTimerFires ==
    /\ \E k \in sy.timers, getThrows \in BOOLEAN, saveThrows \in BOOLEAN :
        sy' = StartSync([sy EXCEPT !.timers = @ \ {k}], k, getThrows, saveThrows)
    /\ UNCHANGED <<hookVars, rw, rs, ev, ld, db>>

\* The fetch a sync awaits settles, and the sync runs to its next await or
\* to its end.
FetchSettles ==
    /\ \E k \in TimerIds :
        /\ sy.job[k].pc = "fetching"
        /\ \E result \in FetchResults(sy.job[k].settings.subscriptions[sy.job[k].i].id),
              saveThrows \in BOOLEAN :
            sy' = ContinueSync(AfterFetch(sy, k, result), k, sy.job[k].i + 1, saveThrows)
    /\ UNCHANGED <<hookVars, rw, rs, ev, ld, db>>

\* Another part of the application stores a source of its own in the
\* settings (getSettings, then saveSettings, in one turn).
OtherActorSaves ==
    /\ sy.pc # "none"
    /\ sy.writes < MaxWrites
    /\ LET source == UserSource(sy.writes + 1)
       IN sy' = [sy EXCEPT !.store.sources = @ \cup {source},
                           !.writes = @ + 1,
                           !.lateAdds = IF InFlight(sy) THEN @ \cup {source} ELSE @]
    /\ UNCHANGED <<hookVars, rw, rs, ev, ld, db>>

----------------------------------------------------------------------------
(* Properties. *)

Min(a, b) == IF a < b THEN a ELSE b

\* The Hls instance of session s exists.
Created(s) == sess[s].hls = s

\* The Hls instance of session s has been destroyed.
Destroyed(s) == Created(s) /\ hlsDestroyCalls[s] >= 1

NetworkReport == Report("network", "")
MediaReport == Report("media", "")

Occurrences(seq, x) == Cardinality({i \in 1..Len(seq) : seq[i] = x})

Intercepting == cur > 0 /\ sess[cur].backend = "intercept"

\* C1: on the intercepting backend, k consecutive fatal network events (and
\* no other fatal event) yield min(k,3) startLoad commands; the 4th yields
\* exactly one network-failure report and destroys the backend; up to then
\* the session keeps the one instance it created.
C1_NetworkRecoveryBounded ==
    (Intercepting /\ listener.mediaFed = 0 /\ listener.otherFed = 0) =>
        LET k == listener.netFed IN
        /\ k <= 4
        /\ listener.startLoads = Min(k, 3)
        /\ listener.recovers = 0
        /\ listener.reports = IF k = 4 THEN <<NetworkReport>> ELSE <<>>
        /\ Created(cur) /\ hlsRef = cur
        /\ (k <= 3 /\ sess[cur].cleanups = 0 => Live(sess[cur].hls))
        /\ (k = 4 => Destroyed(cur))

C1_Witness ==
    /\ Intercepting
    /\ listener.netFed = 4 /\ listener.mediaFed = 0 /\ listener.otherFed = 0
    /\ listener.startLoads = 3
    /\ listener.reports = <<NetworkReport>>
    /\ Destroyed(cur)

\* C2: the media counter is separate from the network counter: in every
\* interleaving the k-th fatal media event issues recoverMediaError iff
\* k <= 3 and ends the session with a media-failure report iff k = 4,
\* whatever the number of fatal network events, and symmetrically; three of
\* each terminate nothing.
C2_SeparateCounters ==
    Intercepting =>
        /\ listener.netFed <= 4 /\ listener.mediaFed <= 4
        /\ listener.networkErrorRetries = listener.netFed
        /\ listener.mediaErrorRetries = listener.mediaFed
        /\ listener.startLoads = Min(listener.netFed, 3)
        /\ listener.recovers = Min(listener.mediaFed, 3)
        /\ Occurrences(listener.reports, MediaReport) =
               (IF listener.mediaFed = 4 THEN 1 ELSE 0)
        /\ Occurrences(listener.reports, NetworkReport) =
               (IF listener.netFed = 4 THEN 1 ELSE 0)
        /\ (listener.mediaFed = 4 \/ listener.netFed = 4 => Destroyed(cur))
        /\ (/\ listener.netFed <= 3 /\ listener.mediaFed <= 3
            /\ listener.otherFed = 0 /\ sess[cur].cleanups = 0
            => Live(sess[cur].hls) /\ listener.reports = <<>>)

C2_Witness ==
    /\ Intercepting
    /\ listener.netFed = 3 /\ listener.mediaFed = 4
    /\ listener.startLoads = 3 /\ listener.recovers = 3
    /\ listener.reports = <<MediaReport>>
    /\ Destroyed(cur)

C2_WitnessThreeEach ==
    /\ Intercepting
    /\ listener.netFed = 3 /\ listener.mediaFed = 3
    /\ Live(sess[cur].hls)

\* C3: a fatal event of another type is never retried: whatever the two
\* counters, the step that feeds it issues no startLoad and no
\* recoverMediaError, reports one generic fatal message carrying the detail
\* (or the placeholder when the detail is absent) and destroys the backend.
C3_OtherFatalStep ==
    listener'.otherFed = listener.otherFed + 1 =>
        /\ listener.otherFed = 0
        /\ listener'.startLoads = listener.startLoads
        /\ listener'.recovers = listener.recovers
        /\ listener'.networkErrorRetries = listener.networkErrorRetries
        /\ listener'.mediaErrorRetries = listener.mediaErrorRetries
        /\ listener'.reports =
               Append(listener.reports,
                      Report("fatal", IF listener'.otherDetail = ""
                                      THEN "unknown" ELSE listener'.otherDetail))
        /\ Live(sess[cur].hls)
        /\ hlsDestroyCalls'[sess[cur].hls] = 1

C3_OtherFatalNeverRetried == [][C3_OtherFatalStep]_vars

C3_Witness ==
    /\ Intercepting
    /\ listener.otherFed = 1 /\ listener.otherDetail = ""
    /\ listener.netFed = 2 /\ listener.mediaFed = 1
    /\ listener.startLoads = 2 /\ listener.recovers = 1
    /\ listener.reports = <<Report("fatal", "unknown")>>
    /\ Destroyed(cur)

\* C4: per session, teardown destroys the backend exactly once and releases
\* the artifacts exactly once: no Hls instance receives a second destroy()
\* (from the cleanup after a fatal error, or from the start of the next
\* session) and no session runs its release twice.
C4_TeardownExactlyOnce ==
    \A s \in Sessions :
        /\ Created(s) => hlsDestroyCalls[s] <= 1
        /\ sess[s].cleanups <= 1
        /\ (Created(s) /\ sess[s].cleanups = 1 => hlsDestroyCalls[s] = 1)

\* A session is Active once its backend is established: the engine was
\* created, or the video element was given the source the session chose.
Active(s) ==
    \/ sess[s].backend \in {"intercept", "passthrough"}
    \/ sess[s].backend = "resolver" /\ sess[s].res \in {"done", "failed"}

ArtifactsOf(s) == {b \in blobs : b.owner = s}

\* C5: at most one backend instance is live, and it belongs to the current
\* session; when the dependencies change while the session is Active, its
\* backend is destroyed and its artifacts are released before the next run
\* creates a backend or assigns a source (phase "commit" lies between the
\* cleanup and the next run).
C5_AtMostOneLiveBackend ==
    /\ Cardinality({s \in Sessions : Created(s) /\ Live(s)}) <= 1
    /\ \A s \in Sessions : Created(s) /\ Live(s) => s = cur /\ phase = "idle"
    /\ (phase = "commit" /\ cur > 0 /\ Active(cur) =>
            /\ sess[cur].cleanups = 1
            /\ Created(cur) => Destroyed(cur)
            /\ ArtifactsOf(cur) \subseteq revoked)

C5_Witness ==
    /\ cur = 2
    /\ Created(1) /\ Destroyed(1)
    /\ Created(2) /\ Live(2)

C5_WitnessArtifacts ==
    /\ phase = "commit" /\ cur > 0 /\ Active(cur)
    /\ Cardinality(ArtifactsOf(cur)) >= 2
    /\ src # ""

\* C6: once a resolver session has been torn down or superseded, the
\* completion of its resolution, success or failure, does not assign the
\* playback source of the video element.
C6_Step ==
    \A s \in Sessions :
        (/\ sess[s].cleanups >= 1
         /\ sess[s].res \in {"fetching", "children"}
         /\ sess'[s].res \in {"done", "failed"})
        => videoSrc' = videoSrc

C6_StaleResolutionDiscarded == [][C6_Step]_vars

\* C7: once a session has been torn down and its resolution has finished,
\* every blob URL created for it is revoked.
C7_ArtifactsReleased ==
    \A s \in Sessions :
        (sess[s].cleanups >= 1 /\ sess[s].res \in {"done", "failed"})
        => ArtifactsOf(s) \subseteq revoked

\* C8: the playback source of the video element never names a blob URL
\* that has been revoked (stated for the states between callbacks; the
\* inside of a commit is left out).
C8_NoRevokedSource ==
    phase # "commit" /\ videoSrc.kind = "blob" => videoSrc \notin revoked

\* The selection as the specification orders it.
ClaimedBackend(interceptSupported, nativeSupported, filteringEnabled) ==
    IF interceptSupported /\ (~nativeSupported \/ filteringEnabled) THEN "intercept"
    ELSE IF nativeSupported /\ filteringEnabled THEN "resolver"
    ELSE IF nativeSupported THEN "passthrough"
    ELSE "unsupported"

\* C9: every session that gets past the guard selects its backend as the
\* ordered rule says; only the intercepting backend creates an instance;
\* passthrough plays the source URL directly; unsupported reports the
\* capability error, creates nothing and assigns nothing.
C9_BackendSelection ==
    \A s \in 1..cur :
        sess[s].backend # "skipped" =>
            LET b == ClaimedBackend(hlsSupported, canPlayType # "", sess[s].adFilter) IN
            /\ sess[s].backend = b
            /\ Created(s) <=> b = "intercept"
            /\ sess[s].res # "none" <=> b = "resolver"
            /\ b = "passthrough" => sess[s].assigned = Url(sess[s].src)
            /\ b = "unsupported" => sess[s].assigned = Nothing /\ ArtifactsOf(s) = {}
            /\ s = cur /\ listener.otherFed = 0 /\ listener.netFed < 4 /\ listener.mediaFed < 4
                 => listener.reports = (IF b = "unsupported"
                                        THEN <<Report("unsupported", "")>> ELSE <<>>)

C9_Witness ==
    /\ cur = 2
    /\ sess[1].backend = "passthrough" /\ sess[1].assigned = Url("u1")
    /\ sess[2].backend = "intercept" /\ Created(2)

C9_WitnessUnsupported ==
    /\ cur = 1
    /\ sess[1].backend = "unsupported"
    /\ listener.reports = <<Report("unsupported", "")>>

\* C10: on the resolver-driven native backend a failed master fetch creates
\* no artifact, reports nothing and routes playback to the unfiltered source
\* URL; a successful resolution routes playback to the entry-point artifact.
C10_State ==
    \A s \in Sessions :
        sess[s].backend = "resolver" =>
            /\ sess[s].res = "failed" =>
                   sess[s].assigned = Url(sess[s].src) /\ ArtifactsOf(s) = {}
            /\ sess[s].res = "done" =>
                   sess[s].assigned = Blob(s, 0) /\ Blob(s, 0) \in blobs
            /\ s = cur => listener.reports = <<>>

C10_Step ==
    \A s \in Sessions :
        /\ (sess[s].res = "fetching" /\ sess'[s].res = "failed") =>
               videoSrc' = Url(sess[s].src) /\ blobs' = blobs /\ listener' = listener
        /\ (sess[s].res \in {"fetching", "children"} /\ sess'[s].res = "done") =>
               videoSrc' = Blob(s, 0) /\ Blob(s, 0) \in blobs'

C10_ResolverFallback == []C10_State /\ [][C10_Step]_vars

C10_Witness ==
    /\ cur = 1
    /\ sess[1].backend = "resolver" /\ sess[1].res = "failed"
    /\ sess[1].cleanups = 0
    /\ videoSrc = Url(sess[1].src)

C10_WitnessSuccess ==
    /\ cur = 1
    /\ sess[1].backend = "resolver" /\ sess[1].res = "done"
    /\ sess[1].cleanups = 0
    /\ videoSrc = Blob(1, 0)

\* What session s has handed to the video element: the blob URL it assigned
\* as playback source and the child blob URLs that master names.
Handed(s) ==
    IF sess[s].assigned.kind = "blob"
    THEN {sess[s].assigned} \cup sess[s].createdBlobs
    ELSE {}

\* C28: whenever a teardown can run, every blob URL a session has handed to
\* the video element is in the set the cleanup of that session is going to
\* revoke, or has been revoked by that cleanup.
C28_RegisteredBeforeHanded ==
    phase = "idle" =>
        \A s \in Sessions :
            Handed(s) \subseteq
                (IF sess[s].cleanups = 0 THEN CleanupRevokes(sess[s]) ELSE revoked)

\* C30: every run of the effect starts with both counters at 0, and a
\* session that has seen at most three fatal network and three fatal media
\* events of its own (and no other fatal event) is alive and has reported
\* nothing, whatever happened in the sessions before it.
C30_CountersPerSession ==
    /\ [][cur' # cur =>
            /\ listener'.networkErrorRetries = 0
            /\ listener'.mediaErrorRetries = 0]_vars
    /\ [](Intercepting /\ sess[cur].cleanups = 0 =>
            /\ listener.networkErrorRetries = listener.netFed
            /\ listener.mediaErrorRetries = listener.mediaFed
            /\ (listener.netFed <= MAX_RETRIES /\ listener.mediaFed <= MAX_RETRIES
                    /\ listener.otherFed = 0) =>
                  /\ Live(sess[cur].hls)
                  /\ listener.startLoads = listener.netFed
                  /\ listener.recovers = listener.mediaFed
                  /\ listener.reports = <<>>)

\* The first session died of a fatal error (its instance was destroyed by
\* the listener, by the cleanup and by the next run); the second has taken
\* three network and three media faults and is alive.
C30_Witness ==
    /\ cur = 2
    /\ sess[1].backend = "intercept"
    /\ hlsDestroyCalls[1] = 3
    /\ Intercepting
    /\ listener.netFed = 3 /\ listener.mediaFed = 3
    /\ listener.startLoads = 3 /\ listener.recovers = 3
    /\ Live(sess[cur].hls)

----------------------------------------------------------------------------
(* Properties of filterM3u8Ad, checked on SpecRewrite. *)

\* The call has returned.
Returned == rw.pc \in {"returned", "returnedAgain"}

\* Input line i contains a configured keyword.
AdLine(i) == MatchesKeyword(trim(rw.content[i]), Keywords(rw.env))

\* The input contains an ad-matching line.
AdInput == \E i \in 1..Len(rw.content) : AdLine(i)

\* The output contains a line with a configured keyword in it.
AdOutput == \E j \in 1..Len(rw.out) : MatchesKeyword(trim(rw.out[j]), Keywords(rw.env))

\* The input indices of the lines of the output.  The empty text returns
\* early as the empty text: its one blank line is the blank line of the result.
KeptIdx ==
    IF rw.content = EmptyText THEN {1}
    ELSE {rw.trace[j].idx : j \in 1..Len(rw.trace)}

\* C14 as stated: for a playlist without ad-matching lines and an absolute
\* base URL, rewriting the rewritten text once more changes nothing.
C14_Idempotent ==
    (rw.pc = "returnedAgain" /\ ~AdInput /\ UrlParses(rw.baseUrl))
        => rw.again = rw.out

\* A segment line: not blank and not a tag.
IsUriLine(t) == trim(t) # <<>> /\ ~startsWithHash(trim(t))

\* Every duration tag of the input is immediately followed by a segment line.
WellPaired ==
    \A i \in 1..Len(rw.content) :
        IsExtinf(trim(rw.content[i]))
            => i < Len(rw.content) /\ IsUriLine(rw.content[i + 1])

\* Line j of the output is a duration tag followed by another duration tag, by
\* the end of the text, or by a discontinuity tag with no segment after it.
Dangling(j) ==
    /\ IsExtinf(trim(rw.out[j]))
    /\ \/ j = Len(rw.out)
       \/ IsExtinf(trim(rw.out[j + 1]))
       \/ /\ IsDiscontinuity(trim(rw.out[j + 1]))
          /\ ~\E k \in (j + 2)..Len(rw.out) : IsUriLine(rw.out[k])

\* C15 as stated: for every input, the output has no duration tag that is
\* immediately followed by a duration tag, by the end of the text, or by a
\* discontinuity tag with no playable segment after it.
C15_NoDanglingMetadata ==
    Returned => \A j \in 1..Len(rw.out) : ~Dangling(j)

\* C15, amended: for every input in which each duration tag is immediately
\* followed by a segment line, the output has no duration tag that is
\* immediately followed by a duration tag, by the end of the text, or by a
\* discontinuity tag with no playable segment after it.
C15_NoDanglingMetadataWhenPaired ==
    (Returned /\ WellPaired) => \A j \in 1..Len(rw.out) : ~Dangling(j)

\* A paired playlist with an ad between two segments: the ad went, and so
\* did its duration tag.
C15_Witness ==
    /\ Returned
    /\ WellPaired
    /\ rw.content = AdBreakPlaylist
    /\ rw.env = <<>>
    /\ Len(rw.out) = 4
    /\ \A j \in {1, 3} : IsExtinf(rw.out[j]) /\ IsUriLine(rw.out[j + 1])

\* C16: when no line of the input contains an ad-match keyword, the output
\* contains no discontinuity tag.
C16_CleanInputLosesDiscontinuities ==
    (Returned /\ ~AdInput)
        => \A j \in 1..Len(rw.out) : ~IsDiscontinuity(trim(rw.out[j]))

\* A playlist without ads and with a discontinuity tag between two segments
\* has been rewritten: both segments are there, the tag is not.
C16_Witness ==
    /\ Returned
    /\ rw.content = <<AbsSegA, Discontinuity, RelSeg>>
    /\ rw.baseUrl = BaseCdn
    /\ rw.out = <<AbsSegA, basePath(BaseCdn) \o RelSeg>>

\* Input line i is a duration or discontinuity tag that is not an ad line.
MetaLine(i) ==
    /\ ~AdLine(i)
    /\ IsExtinf(trim(rw.content[i])) \/ IsDiscontinuity(trim(rw.content[i]))

\* Input line i belongs to the run of duration and discontinuity tags that
\* leads to an ad line: only such tags lie between it and the ad line.
InAdPreamble(i) ==
    /\ MetaLine(i)
    /\ \E a \in (i + 1)..Len(rw.content) :
        /\ AdLine(a)
        /\ \A k \in (i + 1)..(a - 1) : MetaLine(k)

\* The output keeps the order of the input.
OrderKept ==
    \A j, k \in 1..Len(rw.trace) : j < k => rw.trace[j].idx < rw.trace[k].idx

\* C17: when the input has an ad-matching line, every discontinuity tag that
\* is not adjacent to a removed ad segment (not in the run of duration and
\* discontinuity tags that leads to an ad line) is in the output, unchanged
\* and in its original position relative to the other lines of the output.
C17_DiscontinuityKeptAwayFromAds ==
    (Returned /\ AdInput)
        => /\ \A i \in 1..Len(rw.content) :
                (IsDiscontinuity(trim(rw.content[i])) /\ ~AdLine(i) /\ ~InAdPreamble(i))
                    => \E j \in 1..Len(rw.trace) :
                          rw.trace[j].idx = i /\ rw.trace[j].text = rw.content[i]
           /\ OrderKept

\* A stream with one ad break: the discontinuity tag before the ad is gone,
\* the two after it are kept.
C17_Witness ==
    /\ Returned
    /\ rw.content = TwoBreaksPlaylist
    /\ rw.env = <<>>
    /\ 3 \notin KeptIdx
    /\ {6, 9} \subseteq KeptIdx

\* Input line i is in the output.
Kept(i) == i \in KeptIdx

\* C18 as stated: no line with an ad-match keyword in it is in the output;
\* with an ad line goes the whole run of duration and discontinuity tags
\* that precedes it, up to the first other line; a duration tag that no ad
\* line follows in this way (one at the end of the text included) is kept;
\* and the stream a.ts, ad, b.ts comes out as a.ts, b.ts with their tags.
C18_AdExcision ==
    Returned =>
        /\ ~AdOutput
        /\ \A i \in 1..Len(rw.content) :
            /\ InAdPreamble(i) => ~Kept(i)
            /\ (~AdLine(i) /\ ~MetaLine(i)) => Kept(i)
            /\ (~AdLine(i) /\ IsExtinf(trim(rw.content[i])) /\ ~InAdPreamble(i))
                   => Kept(i)
        /\ (rw.content = AdBreakPlaylist /\ rw.env = <<>>)
               => rw.out = <<Extinf5, AbsSegA, Extinf5, AbsSegB>>

\* The segment lines that are neither absolute nor blob references.
IsBareRelative(t) ==
    /\ IsUriLine(t)
    /\ ~startsWithHttp(trim(t))
    /\ ~startsWithBlob(trim(t))

\* The base URL up to and including its last "/".
PathOf(u) ==
    CHOOSE p \in {SubSeq(u, 1, n) : n \in 0..Len(u)} :
        /\ p # <<>> => p[Len(p)] = "/"
        /\ \A k \in (Len(p) + 1)..Len(u) : u[k] # "/"

\* scheme://host of an absolute URL.
OriginOf(u) == SubSeq(u, 1, 4)

\* C19: with an absolute base URL, a bare segment line that is not an ad
\* line comes out as origin(baseURL) + line when it is root-relative and as
\* basePath(baseURL) + line otherwise, basePath being the base URL up to and
\* including its last "/"; with base http://cdn.example/path/master.m3u8,
\* seg1.ts becomes http://cdn.example/path/seg1.ts and /seg1.ts becomes
\* http://cdn.example/seg1.ts.
C19_RelativeResolution ==
    (Returned /\ UrlParses(rw.baseUrl)) =>
        /\ \A i \in 1..Len(rw.content) :
            (IsBareRelative(rw.content[i]) /\ ~AdLine(i)) =>
                \E j \in 1..Len(rw.trace) :
                    /\ rw.trace[j].idx = i
                    /\ rw.trace[j].text =
                          IF startsWithSlash(trim(rw.content[i]))
                          THEN OriginOf(rw.baseUrl) \o trim(rw.content[i])
                          ELSE PathOf(rw.baseUrl) \o trim(rw.content[i])
        /\ (rw.content = <<RelSeg, RootSeg>> /\ rw.baseUrl = BaseCdn) =>
               rw.out = << <<"http:", "/", "/", "cdn.example", "/", "path", "/", "seg1.ts">>,
                           <<"http:", "/", "/", "cdn.example", "/", "seg1.ts">> >>

\* The two lines of the example have been resolved against its base URL.
C19_Witness ==
    /\ Returned
    /\ rw.content = <<RelSeg, RootSeg>>
    /\ rw.baseUrl = BaseCdn
    /\ rw.out[1] = PathOf(BaseCdn) \o RelSeg
    /\ rw.out[2] = OriginOf(BaseCdn) \o RootSeg

\* The values of the URI="..." attributes of a line.
RECURSIVE UriValues(_)
UriValues(t) ==
    IF t = <<>> THEN {}
    ELSE IF Head(t) = "URI=\""
         THEN LET rest == Tail(t)
                  n == UntilQuote(rest)
              IN IF n >= 1 /\ n < Len(rest)
                 THEN {SubSeq(rest, 1, n)} \cup UriValues(SubSeq(rest, n + 2, Len(rest)))
                 ELSE UriValues(rest)
         ELSE UriValues(Tail(t))

\* Text t begins with text p.
BeginsWith(t, p) == Len(t) >= Len(p) /\ SubSeq(t, 1, Len(p)) = p

\* Output line e is a segment line that was absolute already and is
\* unchanged, or it begins with the base path or the origin of the base URL.
LineAbsolute(e) ==
    \/ /\ e.text = rw.content[e.idx]
       /\ startsWithHttp(trim(e.text)) \/ startsWithBlob(trim(e.text))
    \/ /\ PathOf(rw.baseUrl) # <<>>
       /\ BeginsWith(e.text, PathOf(rw.baseUrl))
    \/ /\ UrlParses(rw.baseUrl)
       /\ BeginsWith(e.text, OriginOf(rw.baseUrl))

\* Attribute value v of output line e is a value of the input line that was
\* absolute or root-relative already, or it begins with the base path.
ValueAbsolute(e, v) ==
    \/ /\ v \in UriValues(rw.content[e.idx])
       /\ startsWithHttp(v) \/ startsWithSlash(v)
    \/ /\ PathOf(rw.baseUrl) # <<>>
       /\ BeginsWith(v, PathOf(rw.baseUrl))

AllAbsolute ==
    \A j \in 1..Len(rw.trace) :
        LET e == rw.trace[j]
        IN /\ IsUriLine(e.text) => LineAbsolute(e)
           /\ startsWithHash(trim(e.text)) =>
                  \A v \in UriValues(e.text) : ValueAbsolute(e, v)

\* C20 as stated: in the output, every segment line and every URI="..."
\* value is its input value (absolute or root-relative already) or begins
\* with the base path or origin; none is a bare relative path.
C20_UrlAbsoluteness == Returned => AllAbsolute

\* C20, amended: when the base URL is an absolute URL, every segment line
\* and every URI="..." value of the output is its input value (absolute or
\* root-relative already) or begins with the base path or origin; none is a
\* bare relative path.
C20_UrlAbsolutenessOnAbsoluteBase ==
    (Returned /\ UrlParses(rw.baseUrl)) => AllAbsolute

\* A tag with an absolute, a root-relative, an empty and a relative URI value
\* and a relative segment have been rewritten against an absolute base URL.
C20_Witness ==
    /\ Returned
    /\ rw.content = KeyPlaylist
    /\ rw.baseUrl = BaseCdn
    /\ UriValues(rw.out[1]) =
          {<<"http:", "/", "/", "h", "/", "k">>, <<"/", "k">>,
           basePath(BaseCdn) \o <<"k2">>}
    /\ rw.out[3] = basePath(BaseCdn) \o RelSeg

\* C21: filterM3u8Ad returns for every content and every base URL, one
\* that is not a URL included; the empty text gives the empty text; and with
\* a base URL that is not a URL every relative segment line that is not an
\* ad line comes out as the bare relative path it was.
C21_TotalAndDegrading ==
    Returned =>
        /\ Len(rw.out) >= 1
        /\ rw.out = filterM3u8Ad(rw.content, rw.baseUrl, rw.env)
        /\ rw.content = EmptyText => rw.out = EmptyText
        /\ ~UrlParses(rw.baseUrl) =>
              \A i \in 1..Len(rw.content) :
                  (IsBareRelative(rw.content[i]) /\ ~AdLine(i)) =>
                      \E j \in 1..Len(rw.trace) :
                          /\ rw.trace[j].idx = i
                          /\ rw.trace[j].text = trim(rw.content[i])

\* The keywords of the configured value: its parts between commas and line
\* breaks, trimmed, the empty ones dropped.
Usable(env) ==
    LET parts == split(env, {",", "\n"})
    IN {k \in {trim(parts[i]) : i \in 1..Len(parts)} : k # <<>>}

\* C22: the ad-match rules are the usable keywords of the configured value,
\* and the built-in '/adjump/' alone when there is none; the rule set of a
\* rewrite is never empty.
C22_KeywordsNeverEmpty ==
    Returned =>
        /\ Keywords(rw.env) # {}
        /\ Usable(rw.env) # {} => Keywords(rw.env) = Usable(rw.env)
        /\ Usable(rw.env) = {} => Keywords(rw.env) = {DefaultKeyword}

\* Line t with the value of every URI="..." attribute taken out.
RECURSIVE Skeleton(_)
Skeleton(t) ==
    IF t = <<>> THEN <<>>
    ELSE IF Head(t) = "URI=\""
         THEN LET rest == Tail(t)
                  n == UntilQuote(rest)
              IN IF n >= 1 /\ n < Len(rest)
                 THEN <<Head(t), "\"">> \o Skeleton(SubSeq(rest, n + 2, Len(rest)))
                 ELSE <<Head(t)>> \o Skeleton(rest)
         ELSE <<Head(t)>> \o Skeleton(Tail(t))

\* The values of the URI="..." attributes of a line, in their order.
RECURSIVE UriList(_)
UriList(t) ==
    IF t = <<>> THEN <<>>
    ELSE IF Head(t) = "URI=\""
         THEN LET rest == Tail(t)
                  n == UntilQuote(rest)
              IN IF n >= 1 /\ n < Len(rest)
                 THEN <<SubSeq(rest, 1, n)>> \o UriList(SubSeq(rest, n + 2, Len(rest)))
                 ELSE UriList(rest)
         ELSE UriList(Tail(t))

\* Text out is line t with nothing but its URI rewritten: a tag line keeps
\* everything around its URI attribute values, and each value is the old one
\* or the old one behind the base path; a bare URI line becomes its URI (the
\* trimmed line) behind the base path or the origin.
OnlyUriRewritten(t, out) ==
    IF startsWithHash(trim(t))
    THEN /\ Skeleton(out) = Skeleton(t)
         /\ Len(UriList(out)) = Len(UriList(t))
         /\ \A k \in 1..Len(UriList(t)) :
                UriList(out)[k] \in {UriList(t)[k], basePath(rw.baseUrl) \o UriList(t)[k]}
    ELSE /\ IsBareRelative(t)
         /\ out = (IF startsWithSlash(trim(t))
                   THEN origin(rw.baseUrl) ELSE basePath(rw.baseUrl)) \o trim(t)

\* Input line i is blank or begins with http or blob:.
PassThrough(i) ==
    LET t == trim(rw.content[i])
    IN t = <<>> \/ startsWithHttp(t) \/ startsWithBlob(t)

\* C33: the lines of the output are input lines in their input order, none
\* twice and none that the input does not hold, each one as it was or with
\* only its URI rewritten; and every line that is blank or begins with http
\* or blob: and holds no ad keyword is in the output exactly as it was.
C33_Lossless ==
    Returned =>
        /\ rw.out = join(Texts(rw.trace))
        /\ \A j \in 1..Len(rw.trace) :
            /\ rw.trace[j].idx \in 1..Len(rw.content)
            /\ \A k \in 1..Len(rw.trace) : j < k => rw.trace[j].idx < rw.trace[k].idx
            /\ \/ rw.trace[j].text = rw.content[rw.trace[j].idx]
               \/ OnlyUriRewritten(rw.content[rw.trace[j].idx], rw.trace[j].text)
        /\ rw.content = EmptyText => rw.out = rw.content
        /\ \A i \in 1..Len(rw.content) :
            (rw.content # EmptyText /\ PassThrough(i) /\ ~AdLine(i)) =>
                \E j \in 1..Len(rw.trace) :
                    rw.trace[j].idx = i /\ rw.out[j] = rw.content[i]

\* An ad line has been removed between a blank line that came out as it was
\* and a padded relative line that came out resolved.
C33_Witness ==
    /\ Returned
    /\ rw.content = <<Blank, AbsAd, Padded>>
    /\ rw.baseUrl = BaseCdn
    /\ rw.env = <<>>
    /\ Len(rw.trace) = 2
    /\ rw.out = <<Blank, basePath(BaseCdn) \o RelSeg>>

\* A second case: a key tag with several URI attributes, rewritten in place.
C33_WitnessTag ==
    /\ Returned
    /\ rw.content = KeyPlaylist
    /\ rw.baseUrl = BaseCdn
    /\ rw.out[1] # KeyMixed
    /\ Skeleton(rw.out[1]) = Skeleton(KeyMixed)

\* Every segment line of the input comes right after a duration tag.
SegmentsPaired ==
    \A i \in 1..Len(rw.content) :
        IsUriLine(rw.content[i]) => (i > 1 /\ IsExtinf(trim(rw.content[i - 1])))

\* C34 as stated: when every segment line of the input comes right after its
\* duration tag, every segment line of the output comes right after the
\* duration tag it had in the input.
C34_PairingPreserved ==
    (Returned /\ SegmentsPaired) =>
        \A j \in 1..Len(rw.trace) :
            IsUriLine(rw.content[rw.trace[j].idx]) =>
                /\ j > 1
                /\ rw.trace[j - 1].idx = rw.trace[j].idx - 1
                /\ rw.trace[j - 1].text = rw.content[rw.trace[j].idx - 1]

----------------------------------------------------------------------------
(* Properties of processMasterPlaylist, checked on SpecResolve. *)

\* The call has returned from its master branch.
ResolvedMaster == rs.pc = "resolved" /\ includesStreamInf(rs.lines)

\* The lines whose child playlist was fetched, and those whose fetch failed.
ChildLines == {i \in 1..Len(rs.lines) : rs.task[i] # "none"}
FailedLines == {i \in 1..Len(rs.lines) : rs.task[i] = "failed"}

\* The artifacts made for children, and those made as entry point.
ChildArtifacts == {k \in 1..Len(rs.store) : rs.store[k].line # 0}
MasterArtifacts == {k \in 1..Len(rs.store) : rs.store[k].line = 0}

\* What line i of the master names: its URI attribute or the line itself.
Pointer(text, i) ==
    IF IsMediaChild(rs.lines, i) THEN FirstUri(trim(text)) ELSE trim(text)

\* The relative URI of line i resolved against the master URL.
AbsoluteOf(i) ==
    LET rel == Pointer(rs.lines[i], i)
    IN IF rel[1] = "/"
       THEN OriginOf(rs.masterSrc) \o rel
       ELSE PathOf(rs.masterSrc) \o rel

\* Line i of the processed master names the artifact made for line i, and is
\* otherwise the line of the master.
NamesOwnArtifact(i) ==
    \E k \in ChildArtifacts :
        /\ rs.store[k].line = i
        /\ Pointer(rs.processed[i], i) = BlobUrl(k)
        /\ IsMediaChild(rs.lines, i) =>
               rs.processed[i] =
                   replaceFirst(rs.lines[i], Pointer(rs.lines[i], i), BlobUrl(k))

\* C11: for a master with n relative children of which f fail, the call
\* succeeds with n - f child artifacts and one master artifact, each
\* successful child's line names its artifact, and each failing child's
\* line names the absolute URL of that child (n = 3, f = 1: two child
\* artifacts and one master artifact).
C11_FanOutIsolation ==
    /\ rs.pc = "children" => \E i \in ChildLines : rs.task[i] = "pending"
    /\ ResolvedMaster =>
        /\ Cardinality(ChildArtifacts) =
              Cardinality(ChildLines) - Cardinality(FailedLines)
        /\ Cardinality(MasterArtifacts) = 1
        /\ \A i \in ChildLines \ FailedLines : NamesOwnArtifact(i)
        /\ \A i \in FailedLines : Pointer(rs.processed[i], i) = AbsoluteOf(i)

\* C12: the master text that the call produces does not depend on the order
\* in which the children complete: line i of it is the master's line i when
\* that line has no child, names the artifact made for line i when the child
\* was fetched, and names the child of line i itself when the fetch failed;
\* the master artifact holds exactly these lines.
C12_OrderIndependent ==
    ResolvedMaster =>
        /\ \A i \in 1..Len(rs.lines) :
            CASE rs.task[i] = "none" -> rs.processed[i] = rs.lines[i]
              [] rs.task[i] = "ok" -> NamesOwnArtifact(i)
              [] OTHER -> Pointer(rs.processed[i], i)
                              \in {Pointer(rs.lines[i], i), AbsoluteOf(i)}
        /\ rs.store[rs.result.masterBlobUrl].text = rs.processed

\* Three children fetched, completed in the reverse of the order of their
\* lines.
C12_Witness ==
    /\ ResolvedMaster
    /\ rs.lines = ThreeVariants
    /\ rs.store[1].line = 7 /\ rs.store[2].line = 5 /\ rs.store[3].line = 3
    /\ rs.processed[3] = BlobUrl(3)
    /\ rs.processed[7] = BlobUrl(1)

\* A master artifact exists.
MasterMade == MasterArtifacts # {}

C13_State == (MasterMade \/ rs.pc = "resolved") => JoinReady(rs.task)

C13_Step ==
    MasterMade =>
        /\ rs'.store = rs.store
        /\ rs'.processed = rs.processed
        /\ rs'.createdBlobs = rs.createdBlobs

\* C13: the master artifact is made, and the call returns, only after every
\* child task has settled, and no child artifact is made or substituted
\* once the master artifact exists.
C13_JoinBarrier == []C13_State /\ [][C13_Step]_vars

\* Three children, one of them failed: the master artifact was made last,
\* after the two child artifacts.
C13_Witness ==
    /\ ResolvedMaster
    /\ rs.lines = ThreeVariants
    /\ Cardinality(FailedLines) = 1
    /\ Len(rs.store) = 3
    /\ MasterArtifacts = {3}
    /\ rs.result.allBlobs = <<1, 2, 3>>

\* The text of the entry-point artifact of a resolved master.
MasterText == rs.store[rs.result.masterBlobUrl].text

\* Line t names nothing by a bare relative URI: neither as a line nor in a
\* URI attribute.
NoBareRelative(t) ==
    /\ ~IsBareRelative(t)
    /\ startsWithHash(trim(t)) =>
          \A v \in UriValues(t) :
              startsWithHttp(v) \/ startsWithBlob(v) \/ startsWithSlash(v)

\* C26: the entry-point artifact of a master playlist holds the output of
\* filterM3u8Ad for the master text with the child substitutions applied,
\* and no line or URI attribute of it is a bare relative URI.
C26_MasterRewritten ==
    ResolvedMaster =>
        /\ MasterText = filterM3u8Ad(join(rs.processed), rs.masterSrc, <<>>)
        /\ \A i \in 1..Len(MasterText) : NoBareRelative(MasterText[i])

\* The fetched text has no stream tag and the call has returned.
ResolvedLeaf == rs.pc = "resolved" /\ ~includesStreamInf(rs.lines)

\* C27: for a text without stream tag the call makes one artifact, holding
\* filterM3u8Ad(text, source URL), and fetches nothing but the source; the
\* artifact becomes the playback source and is the one blob URL the cleanup
\* revokes.
C27_LeafPath ==
    ResolvedLeaf =>
        /\ Len(rs.store) = 1
        /\ rs.store[1].text = filterM3u8Ad(rs.lines, rs.masterSrc, <<>>)
        /\ rs.fetches = 1
        /\ rs.result.string /\ rs.result.masterBlobUrl = 1
        /\ ~rs.handled => rs.videoSrc = <<>> /\ Revokes(rs) = {}
        /\ rs.handled => rs.videoSrc = BlobUrl(1) /\ Revokes(rs) = {BlobUrl(1)}

\* A media playlist with a relative segment was fetched from the source URL
\* and its rewritten text is what the video element plays.
C27_Witness ==
    /\ ResolvedLeaf
    /\ rs.handled
    /\ rs.lines = MediaPlaylist
    /\ rs.store[1].text # rs.lines
    /\ rs.videoSrc = BlobUrl(1)
    /\ rs.objectUrl = BlobUrl(1)

\* Line i of the master is a child to resolve: an alternate-rendition tag
\* with a URI that does not start with http, or a line that is not a tag,
\* follows a stream tag and does not start with http.
RelativeChild(i) ==
    LET t == trim(rs.lines[i])
        prev == IF i > 1 THEN trim(rs.lines[i - 1]) ELSE <<>>
    IN \/ /\ BeginsWith(t, <<"#EXT-X-MEDIA:">>)
          /\ \E v \in UriValues(t) : ~startsWithHttp(v)
       \/ /\ BeginsWith(prev, <<"#EXT-X-STREAM-INF:">>)
          /\ IsUriLine(t)
          /\ ~startsWithHttp(t)

\* C31: in a master playlist only the relative children are fetched; every
\* other line, an absolute variant or rendition included, has no task and
\* no artifact and is in the processed master as it was.
C31_OnlyRelativeChildren ==
    (rs.pc \in {"children", "resolved"} /\ includesStreamInf(rs.lines)) =>
        /\ rs.fetches = 1 + Cardinality({i \in 1..Len(rs.lines) : RelativeChild(i)})
        /\ \A i \in 1..Len(rs.lines) :
            ~RelativeChild(i) =>
                /\ rs.task[i] = "none"
                /\ rs.processed[i] = rs.lines[i]
                /\ \A k \in 1..Len(rs.store) : rs.store[k].line # i

\* A master with an absolute rendition, a relative and an absolute variant:
\* one child was fetched and the two absolute references are untouched.
C31_Witness ==
    /\ ResolvedMaster
    /\ rs.lines = MixedChildren
    /\ rs.fetches = 2
    /\ ChildArtifacts = {1}
    /\ rs.processed[1] = MediaAbs
    /\ rs.processed[3] = BlobUrl(1)
    /\ rs.processed[5] = AbsVariant

----------------------------------------------------------------------------
(* Properties of the event handlers, checked on SpecEvents. *)

\* The onError calls of run e that carry one of the categories cats.
ReportsIn(e, cats) == SelectSeq(e.listener.reports, LAMBDA r : r.cat \in cats)

\* The categories of the messages that report a failure of the session.
FatalCats == {"network", "media", "fatal", "unsupported"}

\* C23: within one session the onError callback is invoked at most once;
\* when it has been invoked the backend is destroyed or the outcome is
\* Unsupported; and after an invocation no hls.startLoad() and no
\* hls.recoverMediaError() is issued.
C23_FatalOnceWithTeardown ==
    /\ [](ev.pc = "run" =>
            /\ Len(ev.listener.reports) <= 1
            /\ ev.listener.reports # <<>> =>
                  (ev.destroyed \/ ev.backend = "unsupported"))
    /\ [][ev.listener.reports # <<>> =>
            /\ ev'.listener.startLoads = ev.listener.startLoads
            /\ ev'.listener.recovers = ev.listener.recovers]_vars

\* A codec string of the HEVC family: the sample entries hev1 and hvc1 of
\* ISO/IEC 14496-15, or the name h265, in any case.
IsHevcCodec(codec) ==
    /\ codec.defined
    /\ Len(codec.name) > 0
    /\ toLowerCase(codec.name)[1] \in {"hev", "hvc", "h265"}

DeclaresHevc(levels) == \E i \in 1..Len(levels) : IsHevcCodec(levels[i].videoCodec)

\* The step in which MANIFEST_PARSED is handled.
ManifestParsedStep == ~ev.parsed /\ ev'.parsed

\* C24: when the stream metadata is parsed and a variant declares an HEVC
\* codec, one compatibility warning is emitted, in a category of its own;
\* when no variant does, nothing is emitted; either way no failure is
\* reported, the backend is not destroyed and the retry counters stay.
C24_CodecWarning ==
    [][ManifestParsedStep =>
        /\ DeclaresHevc(ev.levels) =>
              Len(ReportsIn(ev', {"hevc"})) = Len(ReportsIn(ev, {"hevc"})) + 1
        /\ ~DeclaresHevc(ev.levels) =>
              ev'.listener.reports = ev.listener.reports
        /\ ReportsIn(ev', FatalCats) = ReportsIn(ev, FatalCats)
        /\ ~ev'.destroyed
        /\ ev'.listener.networkErrorRetries = ev.listener.networkErrorRetries
        /\ ev'.listener.mediaErrorRetries = ev.listener.mediaErrorRetries]_vars

\* The play() calls of the run that have not been settled.
PendingPlays(e) == e.pending.manifest + e.pending.frag

\* The step in which a FRAG_LOADED event is handled.
FragLoadedStep == ev'.frags = ev.frags + 1

\* The step in which the browser rejects a play() call of the run.
PlayBlockedStep == ev'.blocked = ev.blocked + 1

\* C25: play() is attempted only on the intercepting backend with autoplay
\* requested; a fragment that starts at 0 and is loaded while the video is
\* paused makes the handler attempt it; every blocked attempt is reported
\* through onAutoPlayPrevented and leaves the onError calls, the backend
\* and the retry counters as they were.
C25_AutoplayTrigger ==
    /\ [](ev.pc = "run" /\ PendingPlays(ev) + ev.blocked > 0 =>
            ev.backend = "intercept" /\ ev.autoPlay)
    /\ [][FragLoadedStep =>
            (ev'.pending.frag = ev.pending.frag + 1
                <=> (ev.autoPlay /\ ev.paused /\ ev'.start = 0))]_vars
    /\ [][PlayBlockedStep =>
            /\ ev'.prevented = ev.prevented + 1
            /\ ev'.listener = ev.listener
            /\ ev'.destroyed = ev.destroyed]_vars

----------------------------------------------------------------------------
(* Properties of AdFilterLoader, checked on SpecLoad. *)

\* The response of the request has reached the engine's success callback.
Delivered == ld.pc = "delivered"

\* The request is one whose text the filter is meant to see.
Intercepted == ld.adFilter /\ ld.type \in {"manifest", "level"} /\ ld.data.string

\* C29: with filtering on, the text of a manifest or level response reaches
\* the engine as filterM3u8Ad(text, request URL), or as it was when the
\* filter throws; every other response reaches the engine unchanged; the
\* engine's success callback is called once for a response and never for
\* a failed request.
C29_LoaderDecorator ==
    /\ Delivered =>
        /\ ld.calls = 1
        /\ (Intercepted /\ ~FilterThrows(ld.data, ld.url)) =>
              ld.seen = TextData(filterM3u8Ad(ld.data.body, ld.url.href, <<>>))
        /\ (Intercepted /\ FilterThrows(ld.data, ld.url)) => ld.seen = ld.data
        /\ ~Intercepted => ld.seen = ld.data /\ ~ld.warned
    /\ ~Delivered => ld.calls = 0

\* A level playlist with an ad break went through the filter: the engine
\* sees the text without the ad segment.
C29_Witness ==
    /\ Delivered
    /\ ld.adFilter
    /\ ld.type = "level"
    /\ ld.data = TextData(AdBreakPlaylist)
    /\ ld.url = ContextUrl(BaseCdn)
    /\ ld.seen # ld.data
    /\ ld.calls = 1

\* C32: within one session each retry counter goes up only, and only in a
\* step that feeds a fatal event of its own category; an error event that
\* is not fatal changes nothing and issues no command; a session issues at
\* most three startLoad and at most three recoverMediaError commands.
C32_CountersMonotone ==
    /\ [](ev.pc = "run" =>
            /\ ev.listener.startLoads <= MAX_RETRIES
            /\ ev.listener.recovers <= MAX_RETRIES)
    /\ [][ev.pc = "run" =>
            /\ ev'.listener.networkErrorRetries >= ev.listener.networkErrorRetries
            /\ ev'.listener.mediaErrorRetries >= ev.listener.mediaErrorRetries
            /\ ev'.listener.networkErrorRetries # ev.listener.networkErrorRetries
                  => ev'.listener.netFed = ev.listener.netFed + 1
            /\ ev'.listener.mediaErrorRetries # ev.listener.mediaErrorRetries
                  => ev'.listener.mediaFed = ev.listener.mediaFed + 1
            /\ ev'.nonFatal # ev.nonFatal
                  => ev'.listener = ev.listener /\ ev'.destroyed = ev.destroyed]_vars

\* Three network and three media faults with playback and a non-fatal
\* error in between: three commands of each kind, and the session lives.
C32_Witness ==
    /\ ev.pc = "run"
    /\ ev.nonFatal = 1
    /\ ev.frags = 2
    /\ ~ev.paused
    /\ ev.listener.netFed = 3 /\ ev.listener.mediaFed = 3
    /\ ev.listener.startLoads = 3 /\ ev.listener.recovers = 3
    /\ ~ev.destroyed

----------------------------------------------------------------------------
(* Properties of useDebouncedSearch and SearchBox, checked on SpecDebounce. *)

\* The step is a call of debouncedSearch, immediateSearch or clearTimer, or
\* the unmount.
HookCallStep == db'.tick # db.tick

\* The step invokes the callback.
CallbackStep == db'.calls # db.calls

\* The query the callback is invoked with in a step that invokes it.
Delivered35 == db'.calls[Len(db'.calls)]

\* What C35 asks of every state.
C35_State ==
    db.pc # "none" =>
        /\ Cardinality(db.timers) <= 1
        /\ db.lastOp \in {"clearTimer", "unmount"} => db.timers = {}

\* What C35 asks of every step.
C35_Step ==
    db.pc # "none" =>
        /\ HookCallStep => db.timers \cap db'.timers = {}
        /\ (CallbackStep /\ ~HookCallStep) =>
              /\ db.lastOp = "debouncedSearch"
              /\ Len(db'.calls) = Len(db.calls) + 1
              /\ Delivered35 = trim(db.typed)
              /\ db'.timers = {}
        /\ (db.lastOp \in {"clearTimer", "unmount"} /\ ~HookCallStep) => ~CallbackStep

\* C35: at most one timer is pending; every call of debouncedSearch,
\* immediateSearch or clearTimer cancels the timer that was pending; when a
\* timer runs the callback, it does so for the latest debouncedSearch call,
\* with its query, and leaves no timer behind, so that a burst of calls ends
\* in at most one invocation; and after clearTimer or the unmount, nothing
\* invokes the callback until the next call.
C35_OnePendingTimer == []C35_State /\ [][C35_Step]_vars

\* A burst of two debouncedSearch calls has ended in one invocation of the
\* callback, with the query of the second call.
C35_Witness ==
    /\ db.pc = "mounted"
    /\ db.nextId = 3
    /\ db.timers = {}
    /\ db.lastOp = "debouncedSearch"
    /\ db.typed = <<"a", "b">>
    /\ db.calls = << <<"a", "b">> >>

\* What C36 asks of a step that invokes the callback.
C36_Step ==
    (db.pc # "none" /\ CallbackStep) =>
        /\ db.enabled
        /\ Len(db'.calls) = Len(db.calls) + 1
        /\ Delivered35 = trim(Delivered35)
        /\ Len(Delivered35) >= db.minLength
        /\ (db.calls # <<>> /\ db.calls[Len(db.calls)] = Delivered35) => db.shortSince

C36_WitnessTrimmed ==
    /\ db.pc = "mounted"
    /\ db.typed = <<" ", "a">>
    /\ db.calls = << <<"a">> >>

\* The timer of a query typed after the clear button runs: the query reaches
\* onSearch.
C37_Step ==
    (/\ db.pc # "none"
     /\ db.minLength = 1
     /\ db.cleared
     /\ db.timers # {}
     /\ db'.timers = {}
     /\ ~HookCallStep) =>
        /\ Len(db'.searches) = Len(db.searches) + 1
        /\ db'.searches[Len(db'.searches)] = trim(db.typed)

\* C37 as stated: in SearchBox, once the clear button has been used and a
\* non-empty query typed after it, the end of the debounce delay hands that
\* query to onSearch.
C37_ClearThenTypeDelivers == [][C37_Step]_vars

----------------------------------------------------------------------------
(* Properties of useSubscriptionSync, checked on SpecSync. *)

\* The calls of sync that are between their first await and their end.
Syncing == {k \in TimerIds : sy.job[k].pc = "fetching"}

\* The calls of sync that have ended, normally or with an exception.
Ended == {k \in TimerIds : sy.job[k].pc \in {"done", "threw"}}

\* C38: in one component lifecycle, also when React StrictMode runs the
\* mount effect twice, the body of sync runs at most once and no two syncs
\* are in flight together; the in-progress flag is set exactly while a sync
\* is in flight, so it is cleared when the sync has ended, normally or with
\* an exception; and the done flag is set only when a sync has completed.
C38_OneSyncPerLifecycle ==
    sy.pc # "none" =>
        /\ sy.runs <= 1
        /\ Cardinality(Syncing) <= 1
        /\ sy.isSyncingRef <=> Syncing # {}
        /\ sy.hasSyncedRef => \E k \in TimerIds : sy.job[k].pc = "done"
        /\ sy.runs = Cardinality(Syncing \cup Ended)

\* Under StrictMode the effect has run twice and the one sync has completed
\* after a save.
C38_Witness ==
    /\ sy.effects = 2
    /\ sy.runs = 1
    /\ sy.job[2].pc = "done"
    /\ sy.saved
    /\ sy.hasSyncedRef
    /\ ~sy.isSyncingRef

\* A sync has ended with an exception.
C38_WitnessException ==
    /\ sy.runs = 1
    /\ \E k \in TimerIds : sy.job[k].pc = "threw"
    /\ ~sy.isSyncingRef
    /\ ~sy.hasSyncedRef

\* C39 as stated: a source that another actor stored in the settings while a
\* sync was in flight is still in the store once the sync has saved.
C39_NoLostUpdate ==
    (sy.pc # "none" /\ sy.saved /\ Syncing = {}) => sy.lateAdds \subseteq sy.store.sources

----------------------------------------------------------------------------
Next ==
    \/ RunEffect
    \/ Rerender
    \/ Unmount
    \/ HlsFatalError
    \/ HlsNonFatalError
    \/ MasterFetchFails
    \/ MasterFetched
    \/ ChildSettles

Spec == Init /\ [][Next]_vars

NextRewrite ==
    \/ Rewrite
    \/ RewriteAgain

SpecRewrite == InitRewrite /\ [][NextRewrite]_vars

NextResolve ==
    \/ ResolveMasterFails
    \/ ResolveLeaf
    \/ ResolveMaster
    \/ ResolveChildOk
    \/ ResolveChildFails
    \/ ResolveThen
    \/ ResolveCatch

SpecResolve == InitResolve /\ [][NextResolve]_vars

NextEvents ==
    \/ EvManifestParsed
    \/ EvFragLoaded
    \/ EvPlaySettles
    \/ EvUserPauses
    \/ EvFatalError
    \/ EvNonFatalError

SpecEvents == InitEvents /\ [][NextEvents]_vars

NextLoad == LoadSucceeds \/ LoadFails

SpecLoad == InitLoad /\ [][NextLoad]_vars

NextDebounce ==
    \/ HandleQueryChange
    \/ HandleInputBlur
    \/ HandleSubmit
    \/ SelectHistoryItem
    \/ HandleClear
    \/ TimerFires
    \/ UnmountSearchBox

SpecDebounce == InitDebounce /\ [][NextDebounce]_vars

NextSync ==
    \/ MountSync
    \/ UnmountSync
    \/ SyncTimerFires
    \/ FetchSettles
    \/ OtherActorSaves

SpecSync == InitSync /\ [][NextSync]_vars
=============================================================================
